---------------------------- MODULE Spec2Model ----------------------------
(***************************************************************************)
(* Insurance back-office API: the agent "sync" reconciler                  *)
(* (routers/agent_integration.py) and the document upload orchestrator     *)
(* (routers/documents.py), as state machines.                              *)
(*                                                                         *)
(* A JSON object / Python dict is a function whose DOMAIN is the set of    *)
(* keys that are present.  A table is the sequence of its rows in insert   *)
(* order; a row is a dict over the table's columns.                        *)
(***************************************************************************)
EXTENDS Integers, Sequences, FiniteSets, TLC

VARIABLES
    applicationProcess, \* table of models.ApplicationProcess (policy track)
    claimApplication,   \* table of models.ClaimApplication (claim track)
    claim,              \* master table models.Claim: claim id -> status
    today,              \* the value of datetime.now().date()
    syncReq,            \* the JSON body of the last /agent/sync request
    syncFault,          \* which database call of that request raised
    syncResp,           \* the response to that request
    nCalls,             \* number of requests handled so far
    documents,          \* table of models.Documents (DocumentRecord rows)
    blobs,              \* objects held by the Azure container, in put order
    localFiles,         \* files under ./uploads, in write order
    uploadsDir,         \* whether the directory ./uploads exists
    azureConfigured,    \* azure_storage.blob_service_client is not None
    upReq,              \* the form of the last /documents/upload request
    upEnv,              \* what the store and the database did to it
    upChecked,          \* the validation rules that request went through
    upResp,             \* the response to that request
    utKind,             \* which helper the inputs below are for
    utIn,               \* the arguments of a call of a folder-path helper
    utStage,            \* how far the calls on those arguments have got
    utOut,              \* the values the calls returned
    mongoClaims,        \* the claims collection of the document store
    hashSeed,           \* the string-hash seed of the running interpreter
    wfReq,              \* the last request to the admin surface
    wfEnv,              \* what the collaborators of that request did
    wfTrace,            \* the writes and notifications of that request, in order
    wfResp,             \* the response to that request
    inflight            \* the sync requests being handled at the same time

syncVars == <<applicationProcess, claimApplication, claim, today,
              syncReq, syncFault, syncResp>>

uploadVars == <<documents, blobs, localFiles, uploadsDir, azureConfigured,
                upReq, upEnv, upChecked, upResp>>

utilVars == <<utKind, utIn, utStage, utOut>>

wfVars == <<mongoClaims, hashSeed, wfReq, wfEnv, wfTrace, wfResp>>

vars == <<syncVars, uploadVars, utilVars, wfVars, nCalls, inflight>>

-----------------------------------------------------------------------------
(* Bounds of the model *)

MaxCalls == 2

-----------------------------------------------------------------------------
(* Values *)

NULL == "NULL"          \* Python None / SQL NULL
EmptyDict == <<>>       \* {}

\* dict.get(key, default)
Get(d, k, default) == IF k \in DOMAIN d THEN d[k] ELSE default

\* Python truthiness of a string-or-None value: None and "" are falsy
Truthy(v) == v # NULL /\ v # ""

SyncedIds == {"A1"}      \* the application ids the agent syncs
SeededId == "A2"         \* an application synced before, a bystander
ClaimIds == {"c1", "c2"}
StaleDay == "day0"      \* a lastUpdated value a caller may send

NextDay(d) == IF d = "day1" THEN "day2" ELSE d

-----------------------------------------------------------------------------
(* models.py and crud.py (relational layer) *)

ApplicationProcessColumns ==
    {"id", "applicationId", "applicationtype", "status", "agentData",
     "lastUpdated", "currentStep", "stepHistory", "auditTrail",
     "reviewReason", "startTime", "customerId"}

ClaimApplicationColumns == ApplicationProcessColumns \cup {"claim_record_id"}

\* a fresh row: autoincrement primary key, every other column NULL; the
\* list columns read as the empty list (the handlers test them for truth,
\* which None and [] fail alike)
DefaultRow(columns, id) ==
    [c \in columns |-> IF c = "id" THEN id
                       ELSE IF c \in {"stepHistory", "auditTrail"} THEN <<>>
                       ELSE NULL]

\* crud.get_application_process / crud.get_claim_application:
\* the first row whose applicationId is app_id, 0 when there is none
RowIndex(table, app_id) ==
    IF \E i \in DOMAIN table : table[i].applicationId = app_id
    THEN CHOOSE i \in DOMAIN table :
            /\ table[i].applicationId = app_id
            /\ \A j \in DOMAIN table :
                  table[j].applicationId = app_id => i <= j
    ELSE 0

\* crud.create_entry(db, Model, data): insert one row built from data
create_entry(table, columns, data) ==
    Append(table, data @@ DefaultRow(columns, Len(table) + 1))

\* crud.update_by_id(db, Model, "id", id, data): set the given columns of
\* the row with that primary key
update_by_id(table, id, data) ==
    [i \in DOMAIN table |->
        IF table[i].id = id THEN data @@ table[i] ELSE table[i]]

-----------------------------------------------------------------------------
(* POST /agent/sync *)

\* raise HTTPException(status_code, detail)
HTTPException(code, detail) ==
    [status |-> "error", code |-> code, action |-> "none",
     id |-> NULL, detail |-> detail]

SyncSuccess(action, app_id) ==
    [status |-> "success", code |-> 200, action |-> action,
     id |-> app_id, detail |-> ""]

\* the handler's outer "except Exception as e": everything raised inside the
\* try block, the handler's own HTTPException(422) included, is answered as
\* HTTPException(500, "Backend Sync Error: " + str(e))
SyncExcept(e) == HTTPException(500, e.detail)

\* (mutation) a lastUpdated sent by the caller is kept
SetLastUpdatedKeepCaller(process_data, now) ==
    process_data @@ ("lastUpdated" :> now)

\* process_data["lastUpdated"] = datetime.now().date()
SetLastUpdated(process_data, now) ==
    ("lastUpdated" :> now) @@ process_data

\* {k: v for k, v in process_data.items() if k in valid_fields}
FilterFields(process_data, valid_fields) ==
    [k \in {k \in DOMAIN process_data : k \in valid_fields}
        |-> process_data[k]]

\* (mutation) the comparison is inverted
IsClaimTypeInverted(app_type) == app_type # "claim"

\* app_type == "claim"
IsClaimType(app_type) == app_type = "claim"

\* (mutation) the lookup result is ignored: every sync takes the create branch
RowFoundNever(idx) == FALSE

\* "if db_claim:" / "if db_process:": update when the lookup found a row
RowFound(idx) == idx # 0

\* the update branch's guard of the master Claim propagation
PropagateOnUpdate(row, filtered_data) ==
    Truthy(row.claim_record_id) /\ "status" \in DOMAIN filtered_data

\* the create branch's guard of the master Claim propagation
PropagateOnCreate(row) == Truthy(row.claim_record_id)

\* crud.update_by_id(db, models.Claim, "id", id, {"status": status}) inside
\* try/except: a failure is swallowed and leaves the Claim table as it was
PropagateStatus(claims, id, status, fault) ==
    IF fault = "master" \/ id \notin DOMAIN claims
    THEN claims
    ELSE [claims EXCEPT ![id] = status]

\* the claim branch from the point where the lookup has returned: idx is the
\* row db_claim that crud.get_claim_application found, 0 for None
SyncClaimWrite(payload, app_id, fault, idx) ==
    LET process_data == SetLastUpdated(payload, today)
        filtered_data == FilterFields(process_data, ClaimApplicationColumns)
    IN  IF fault = "primary"
        THEN /\ syncResp' = SyncExcept(HTTPException(500, "database error"))
             /\ UNCHANGED <<applicationProcess, claimApplication, claim>>
        ELSE IF RowFound(idx)
        THEN LET table == update_by_id(claimApplication,
                                       claimApplication[idx].id, filtered_data)
                 updated == table[idx]
             IN  /\ claimApplication' = table
                 /\ claim' = IF PropagateOnUpdate(updated, filtered_data)
                             THEN PropagateStatus(claim, updated.claim_record_id,
                                                  filtered_data["status"], fault)
                             ELSE claim
                 /\ syncResp' = SyncSuccess("updated", app_id)
                 /\ UNCHANGED applicationProcess
        ELSE LET table == create_entry(claimApplication,
                                       ClaimApplicationColumns, filtered_data)
                 new_claim == table[Len(table)]
             IN  /\ claimApplication' = table
                 /\ claim' = IF PropagateOnCreate(new_claim)
                             THEN PropagateStatus(claim, new_claim.claim_record_id,
                                                  new_claim.status, fault)
                             ELSE claim
                 /\ syncResp' = SyncSuccess("created", app_id)
                 /\ UNCHANGED applicationProcess

\* "db_claim = crud.get_claim_application(db, app_id)" and what follows it
SyncClaimBranch(payload, app_id, fault) ==
    SyncClaimWrite(payload, app_id, fault, RowIndex(claimApplication, app_id))

\* the policy branch from the point where the lookup has returned
SyncPolicyWrite(payload, app_id, fault, idx) ==
    LET process_data == SetLastUpdated(payload, today)
        filtered_data == FilterFields(process_data, ApplicationProcessColumns)
    IN  IF fault = "primary"
        THEN /\ syncResp' = SyncExcept(HTTPException(500, "database error"))
             /\ UNCHANGED <<applicationProcess, claimApplication, claim>>
        ELSE IF RowFound(idx)
        THEN /\ applicationProcess' =
                    update_by_id(applicationProcess,
                                 applicationProcess[idx].id, filtered_data)
             /\ syncResp' = SyncSuccess("updated", app_id)
             /\ UNCHANGED <<claimApplication, claim>>
        ELSE /\ applicationProcess' =
                    create_entry(applicationProcess,
                                 ApplicationProcessColumns, filtered_data)
             /\ syncResp' = SyncSuccess("created", app_id)
             /\ UNCHANGED <<claimApplication, claim>>

\* "db_process = crud.get_application_process(db, app_id)" and what follows
SyncPolicyBranch(payload, app_id, fault) ==
    SyncPolicyWrite(payload, app_id, fault,
                    RowIndex(applicationProcess, app_id))

\* one sync request, from parsing the body to the response
sync_agent_state(payload, fault) ==
    LET app_id == Get(payload, "applicationId", NULL)
        app_type == Get(payload, "applicationtype", "policy")
    IN  /\ nCalls < MaxCalls
        /\ nCalls' = nCalls + 1
        /\ syncReq' = payload
        /\ syncFault' = fault
        /\ UNCHANGED <<today, uploadVars, utilVars, inflight>>
        /\ IF ~Truthy(app_id)
           THEN /\ syncResp' = SyncExcept(HTTPException(422, "Missing applicationId"))
                /\ UNCHANGED <<applicationProcess, claimApplication, claim>>
           ELSE IF IsClaimType(app_type)
           THEN SyncClaimBranch(payload, app_id, fault)
           ELSE SyncPolicyBranch(payload, app_id, fault)

\* the request bodies the external agent may send: each key present or not
Opt(k, values) == {EmptyDict} \cup {k :> v : v \in values}

\* fields that ride along with a sync: the opaque agent payload, a
\* caller-supplied lastUpdated, and a key that is no column of either table
SyncExtras ==
    { EmptyDict,
      "agentData" :> "d1",
      ("agentData" :> "d2") @@ ("lastUpdated" :> StaleDay) @@ ("debugInfo" :> "x") }

\* bodies that carry an applicationId
SyncPayloadsWithId ==
    { a @@ t @@ s @@ c @@ x :
        a \in {"applicationId" :> v : v \in SyncedIds},
        t \in Opt("applicationtype", {"claim", "policy"}),
        s \in Opt("status", {"approved"}),
        c \in Opt("claim_record_id", {"c1"}),
        x \in SyncExtras }

\* bodies whose applicationId is missing or empty
SyncPayloadsWithoutId ==
    { a @@ t @@ s @@ c :
        a \in Opt("applicationId", {""}),
        t \in Opt("applicationtype", {"claim"}),
        s \in Opt("status", {"approved"}),
        c \in Opt("claim_record_id", {"c1"}) }

SyncPayloads == SyncPayloadsWithId \cup SyncPayloadsWithoutId

\* which database call of a request raises: none, the primary write, or the
\* master Claim update; a request rejected before its first database call
\* meets no fault
SyncFaults(payload) ==
    IF Truthy(Get(payload, "applicationId", NULL))
    THEN {"none", "primary", "master"}
    ELSE {"none"}

Sync == \E payload \in SyncPayloads :
            \E fault \in SyncFaults(payload) :
                sync_agent_state(payload, fault) /\ UNCHANGED wfVars

\* the calendar date advances between requests
Tick == /\ today' = NextDay(today)
        /\ today' # today
        /\ UNCHANGED <<applicationProcess, claimApplication, claim,
                       syncReq, syncFault, syncResp, nCalls, uploadVars,
                       utilVars, wfVars, inflight>>

\* a database the service can be in: empty tables, or one application
\* already synced on both tracks, its claim row linked to master Claim c2
SeededProcess ==
    ("applicationId" :> SeededId) @@ ("status" :> "approved")
        @@ ("lastUpdated" :> StaleDay)
        @@ DefaultRow(ApplicationProcessColumns, 1)

SeededClaim ==
    ("applicationId" :> SeededId) @@ ("applicationtype" :> "claim")
        @@ ("status" :> "rejected") @@ ("claim_record_id" :> "c2")
        @@ ("lastUpdated" :> StaleDay)
        @@ DefaultRow(ClaimApplicationColumns, 1)

NoResponse ==
    [status |-> "none", code |-> 0, action |-> "none", id |-> NULL, detail |-> ""]

\* the reconciler before any request, on an empty database
SyncIdle ==
    /\ applicationProcess = <<>>
    /\ claimApplication = <<>>
    /\ claim = [c \in ClaimIds |-> "Submitted"]
    /\ today = "day1"
    /\ syncReq = EmptyDict
    /\ syncFault = "none"
    /\ syncResp = NoResponse

SyncInit ==
    /\ \/ /\ applicationProcess = <<>>
          /\ claimApplication = <<>>
          /\ claim = [c \in ClaimIds |-> "Submitted"]
       \/ /\ applicationProcess = <<SeededProcess>>
          /\ claimApplication = <<SeededClaim>>
          /\ claim = [c \in ClaimIds |->
                        IF c = "c2" THEN "rejected" ELSE "Submitted"]
    /\ today = "day1"
    /\ syncReq = EmptyDict
    /\ syncFault = "none"
    /\ syncResp = NoResponse
    /\ nCalls = 0

-----------------------------------------------------------------------------
(* Strings of the upload form.  A string is the sequence of its tokens: a
   token is one of the characters " ", ".", "/", "+", "-", a digit, or a run
   of other characters (a word).  The empty string is <<>>. *)

Digits == {"0", "1", "2", "3", "4", "5", "6", "7", "8", "9"}

DigitValue(c) ==
    CASE c = "0" -> 0 [] c = "1" -> 1 [] c = "2" -> 2 [] c = "3" -> 3
      [] c = "4" -> 4 [] c = "5" -> 5 [] c = "6" -> 6 [] c = "7" -> 7
      [] c = "8" -> 8 [] c = "9" -> 9

\* str.strip(): drop leading and trailing whitespace
Strip(s) ==
    LET keep == {i \in DOMAIN s : s[i] # " "}
    IN  IF keep = {} THEN <<>>
        ELSE LET lo == CHOOSE i \in keep : \A j \in keep : i <= j
                 hi == CHOOSE i \in keep : \A j \in keep : j <= i
             IN  SubSeq(s, lo, hi)

\* str.lower(), on the words that occur in file names and the letters that
\* occur in categories
Lower(s) ==
    [i \in DOMAIN s |->
        CASE s[i] = "PDF" -> "pdf"
          [] s[i] = "EXE" -> "exe"
          [] s[i] = "Scan" -> "scan"
          [] s[i] = "D" -> "d"
          [] OTHER -> s[i]]

\* the value of a sequence of digits
RECURSIVE DigitsValue(_)
DigitsValue(ds) ==
    IF ds = <<>> THEN 0
    ELSE 10 * DigitsValue(SubSeq(ds, 1, Len(ds) - 1)) + DigitValue(ds[Len(ds)])

\* int(s): surrounding whitespace is ignored, an optional sign, then at least
\* one digit; anything else raises ValueError
IntBody(s) ==
    LET t == Strip(s)
    IN  IF t # <<>> /\ t[1] \in {"+", "-"} THEN Tail(t) ELSE t

IntParses(s) ==
    LET body == IntBody(s)
    IN  body # <<>> /\ \A i \in DOMAIN body : body[i] \in Digits

IntValue(s) ==
    IF Strip(s)[1] = "-" THEN 0 - DigitsValue(IntBody(s))
    ELSE DigitsValue(IntBody(s))

\* os.path.splitext(p)[1]: from the last dot of the last path component to
\* the end, unless that component has nothing but dots before it
SplitExt(p) ==
    LET seps == {i \in DOMAIN p : p[i] = "/"}
        dots == {i \in DOMAIN p : p[i] = "."}
        sepIndex == IF seps = {} THEN 0
                    ELSE CHOOSE i \in seps : \A j \in seps : j <= i
        dotIndex == IF dots = {} THEN 0
                    ELSE CHOOSE i \in dots : \A j \in dots : j <= i
    IN  IF /\ dotIndex > sepIndex
           /\ \E k \in (sepIndex + 1)..(dotIndex - 1) : p[k] # "."
        THEN SubSeq(p, dotIndex, Len(p))
        ELSE <<>>

-----------------------------------------------------------------------------
(* routers/documents.py: POST /documents/upload *)

ALLOWED_DOCUMENT_TYPES ==
    {"kyc_document", "id_card", "pan_card", "policy_document",
     "claim_document", "other"}

ALLOWED_FILE_EXTENSIONS ==
    {<<".", e>> : e \in {"pdf", "jpg", "jpeg", "png", "gif", "bmp",
                         "doc", "docx", "xls", "xlsx", "txt"}}

MAX_FILE_SIZE == 10 * 1024 * 1024

\* FOLDER_MAP.get(documentType, "other")
FOLDER_MAP(documentType) ==
    CASE documentType = "kyc_document" -> "kyc"
      [] documentType = "id_card" -> "id_cards"
      [] documentType = "pan_card" -> "pan_cards"
      [] documentType = "policy_document" -> "policies"
      [] documentType = "claim_document" -> "claims"
      [] OTHER -> "other"

\* raise HTTPException(status_code=code, detail=detail)
UploadError(code, detail) ==
    [success |-> FALSE, code |-> code, detail |-> detail, documentId |-> 0]

\* no HTTPException: the request goes on
UploadPassed ==
    [success |-> TRUE, code |-> 0, detail |-> "", documentId |-> 0]

\* "user_id = int(userId) if userId else None": None for the empty string
UserIdIsNone(userId) == userId = <<>>

\* (mutation) the conversion also refuses integers that are not positive
UserIdNotPositive(userId) ==
    userId # <<>> /\ ~(IntParses(userId) /\ IntValue(userId) > 0)

\* the conversion of userId raises ValueError
UserIdNotInteger(userId) == userId # <<>> /\ ~IntParses(userId)

\* "not documentType or not documentType.strip()"
DocumentTypeBlank(documentType) == Strip(documentType) = <<>>

\* "documentType not in ALLOWED_DOCUMENT_TYPES", after strip()
DocumentTypeNotAllowed(documentType) ==
    ~(/\ Len(Strip(documentType)) = 1
      /\ Strip(documentType)[1] \in ALLOWED_DOCUMENT_TYPES)

\* (mutation) the file-name check is missing
FilenameBlankUnchecked(filename) == FALSE

\* "not file.filename or not file.filename.strip()"
FilenameBlank(filename) == Strip(filename) = <<>>

\* "file_ext not in ALLOWED_FILE_EXTENSIONS"
ExtensionNotAllowed(filename) ==
    Lower(SplitExt(filename)) \notin ALLOWED_FILE_EXTENSIONS

\* (mutation) the empty-file check is missing
FileEmptyUnchecked(file_size) == FALSE

\* "file_size == 0"
FileEmpty(file_size) == file_size = 0

\* "file_size > MAX_FILE_SIZE"
FileTooLarge(file_size) == file_size > MAX_FILE_SIZE

\* "int(x) if x and str(x).strip() else None", None as well when int()
\* raises; an optional form field that was not sent is <<>> here, like one
\* sent empty (the handler treats the two alike), and the optional integer is
\* <<>> for None and <<n>> for n
OptionalInt(x) ==
    IF Strip(x) # <<>> /\ IntParses(x) THEN <<IntValue(x)>> ELSE <<>>

\* str(n) of an integer, as used in an f-string
RECURSIVE NatStr(_)
NatStr(n) ==
    LET d == CHOOSE c \in Digits : DigitValue(c) = n % 10
    IN  IF n < 10 THEN <<d>> ELSE Append(NatStr(n \div 10), d)

IntStr(n) == IF n < 0 THEN <<"-">> \o NatStr(0 - n) ELSE NatStr(n)

\* (mutation) an oversized file is answered 413 Payload Too Large
FileTooLargeError413 ==
    UploadError(413, "File size exceeds maximum allowed size")

\* the HTTPException raised for "file_size > MAX_FILE_SIZE"
FileTooLargeError ==
    UploadError(400, "File size exceeds maximum allowed size")

\* the validation part of the handler, in the order the code runs it: the
\* error it raises (NULL when the request passes) and the rules it evaluated
ValidateUpload(req) ==
    IF UserIdNotInteger(req.userId)
    THEN [error |-> UploadError(400, "userId must be a valid integer"),
          checked |-> <<"userId">>]
    ELSE IF UserIdIsNone(req.userId)
    THEN [error |-> UploadError(400, "userId is required"),
          checked |-> <<"userId">>]
    ELSE IF DocumentTypeBlank(req.documentType)
    THEN [error |-> UploadError(400, "documentType is required and cannot be empty"),
          checked |-> <<"userId", "documentType">>]
    ELSE IF DocumentTypeNotAllowed(req.documentType)
    THEN [error |-> UploadError(400, "Invalid documentType"),
          checked |-> <<"userId", "documentType">>]
    ELSE IF FilenameBlank(req.filename)
    THEN [error |-> UploadError(400, "File name is required"),
          checked |-> <<"userId", "documentType", "filename">>]
    ELSE IF ExtensionNotAllowed(req.filename)
    THEN [error |-> UploadError(400, "Invalid file type"),
          checked |-> <<"userId", "documentType", "filename", "extension">>]
    ELSE IF FileEmpty(req.size)
    THEN [error |-> UploadError(400, "File is empty"),
          checked |-> <<"userId", "documentType", "filename", "extension", "size">>]
    ELSE IF FileTooLarge(req.size)
    THEN [error |-> FileTooLargeError,
          checked |-> <<"userId", "documentType", "filename", "extension", "size">>]
    ELSE [error |-> UploadPassed,
          checked |-> <<"userId", "documentType", "filename", "extension", "size">>]

\* derive_folder_path(userId, documentType, claimId, category) for an upload
\* without category: the segments of the path, each a string
derive_folder_path(userId, documentType, claimId) ==
    IF documentType = "claim_document"
    THEN IF claimId # <<>> /\ claimId[1] # 0
         THEN <<<<"claims">>, IntStr(claimId[1])>>
         ELSE <<<<"claims">>, <<"pending">>, IntStr(userId)>>
    ELSE <<<<"users">>, IntStr(userId), <<FOLDER_MAP(documentType)>>>>

\* the "except Exception as e" around azure_storage.upload_file: the message
\* of the exception picks the HTTPException that is raised
AzureUploadFailed(mentionsStorage, mentionsTimeout) ==
    IF mentionsStorage
    THEN UploadError(500, "Azure Storage error")
    ELSE IF mentionsTimeout
    THEN UploadError(504, "Upload timeout")
    ELSE UploadError(500, "Upload failed")

\* (mutation) the exception of the put is swallowed
PutAssumedReturned(env) == TRUE

\* "try: blob_url = azure_storage.upload_file(...)": the put returned a URL
\* (otherwise it raised, and the except branch answers the request)
PutReturned(env) == env.put = "ok"

\* the handler's outer "except Exception as e" (not reached by an
\* HTTPException, which is re-raised as it is)
UploadInternalError(mentionsDatabase) ==
    IF mentionsDatabase
    THEN UploadError(500, "Failed to save document record")
    ELSE UploadError(500, "Error uploading document")

UploadSuccess(document_id) ==
    [success |-> TRUE, code |-> 200,
     detail |-> "Document uploaded successfully", documentId |-> document_id]

\* schemas.DocumentCreate(...) stored by crud.create_entry
DocumentRow(id, user_id, policy_id, documentType, url, size, date) ==
    [id |-> id, userId |-> user_id, policyId |-> policy_id,
     documentType |-> documentType, documentUrl |-> url,
     uploadDate |-> date, fileSize |-> size]

\* "if getattr(azure_storage, 'blob_service_client', None)"
UseAzure(configured) == configured

\* the request once validated: store the file, then record it
StoreAndRecord(req, env) ==
    LET user_id == IntValue(req.userId)
        documentType == Strip(req.documentType)[1]
        claim_id == OptionalInt(req.claimId)
        policy_id == OptionalInt(req.policyId)
        folder == derive_folder_path(user_id, documentType, claim_id)
        \* f"{uuid.uuid4()}{file_extension}", unique per stored file
        blob_name == [uuid |-> Len(blobs) + Len(localFiles) + 1,
                      ext |-> SplitExt(req.filename)]
        azure_url == [host |-> "blob.core.windows.net",
                      folder |-> folder, name |-> blob_name]
        record == DocumentRow(Len(documents) + 1, user_id, policy_id,
                              documentType, azure_url, req.size, today)
    IN  IF UseAzure(azureConfigured)
        THEN IF PutReturned(env)
             THEN /\ blobs' = Append(blobs, [folder |-> folder, name |-> blob_name,
                                             size |-> req.size])
                  /\ UNCHANGED <<localFiles, uploadsDir>>
                  /\ IF env.db = "ok"
                     THEN /\ documents' = Append(documents, record)
                          /\ upResp' = UploadSuccess(record.id)
                     ELSE /\ UNCHANGED documents
                          /\ upResp' = UploadInternalError(TRUE)
             ELSE /\ upResp' = AzureUploadFailed(env.mentionsStorage,
                                                 env.mentionsTimeout)
                  /\ UNCHANGED <<documents, blobs, localFiles, uploadsDir>>
        ELSE \* local fallback: os.makedirs(uploads_dir, exist_ok=True) creates
             \* ./uploads; os.makedirs(dest_folder, exist_ok=True, parents=True)
             \* then raises TypeError (makedirs takes no "parents"), which the
             \* outer "except Exception" answers with 500: no file is written
             /\ uploadsDir' = TRUE
             /\ UNCHANGED <<blobs, localFiles, documents>>
             /\ upResp' = UploadInternalError(FALSE)

\* one upload request, from validation to the response
upload_document(req, env) ==
    LET v == ValidateUpload(req)
    IN  /\ nCalls < MaxCalls
        /\ nCalls' = nCalls + 1
        /\ upReq' = req
        /\ upEnv' = env
        /\ upChecked' = v.checked
        /\ UNCHANGED <<syncVars, azureConfigured, utilVars, wfVars, inflight>>
        /\ IF v.error # UploadPassed
           THEN /\ upResp' = v.error
                /\ UNCHANGED <<documents, blobs, localFiles, uploadsDir>>
           ELSE StoreAndRecord(req, env)

\* the forms a client may post
UserIdInputs ==
    {<<>>, <<"abc">>, <<"0">>, <<"-", "5">>, <<" ", "7">>}

DocumentTypeInputs ==
    {<<" ">>, <<"bogus">>, <<" ", "kyc_document">>}

FilenameInputs ==
    {<<>>, <<"virus", ".", "exe">>, <<"Scan", ".", "PDF">>}

SizeInputs == {0, 1, MAX_FILE_SIZE + 1}

PlainUploads ==
    [userId : UserIdInputs, documentType : DocumentTypeInputs,
     filename : FilenameInputs, size : SizeInputs,
     policyId : {<<>>}, claimId : {<<>>}]

\* well-formed forms of other shapes: a claim document with and without a
\* claim id, a hidden file, a file of exactly the maximum size
OtherUploads ==
    { [userId |-> <<"4", "2">>, documentType |-> <<"claim_document">>,
       filename |-> <<"fir", ".", "jpg">>, size |-> MAX_FILE_SIZE,
       policyId |-> <<"x">>, claimId |-> <<"4", "5">>],
      [userId |-> <<"4", "2">>, documentType |-> <<"claim_document">>,
       filename |-> <<"fir", ".", "jpg">>, size |-> 1,
       policyId |-> <<"9">>, claimId |-> <<>>],
      [userId |-> <<"7">>, documentType |-> <<"other">>,
       filename |-> <<".", "pdf">>, size |-> 1,
       policyId |-> <<>>, claimId |-> <<>>],
      [userId |-> <<"7", ".", "0">>, documentType |-> <<"id_card">>,
       filename |-> <<"a", ".", "b", "/", "noext">>, size |-> 0,
       policyId |-> <<>>, claimId |-> <<>>] }

UploadRequests == PlainUploads \cup OtherUploads

NoEnv == [put |-> "none", db |-> "none",
          mentionsStorage |-> FALSE, mentionsTimeout |-> FALSE]

\* what the store and the database do to a request that reaches them: the put
\* succeeds or raises with a message that mentions storage, a timeout, both
\* or neither; after a put that succeeded the insert succeeds or raises
UploadEnvs(req) ==
    IF ValidateUpload(req).error # UploadPassed
    THEN {NoEnv}
    ELSE {[NoEnv EXCEPT !.put = "ok", !.db = d] : d \in {"ok", "failed"}}
         \cup {[NoEnv EXCEPT !.put = "failed", !.mentionsStorage = s,
                             !.mentionsTimeout = t] : s, t \in BOOLEAN}

Upload == \E req \in UploadRequests :
              \E env \in UploadEnvs(req) :
                  upload_document(req, env)

NoUploadResponse ==
    [success |-> FALSE, code |-> 0, detail |-> "", documentId |-> 0]

\* the upload side before any request; the store was configured or not when
\* the process started
UploadIdle ==
    /\ documents = <<>>
    /\ blobs = <<>>
    /\ localFiles = <<>>
    /\ uploadsDir = FALSE
    /\ azureConfigured = TRUE
    /\ upReq = [userId |-> <<>>, documentType |-> <<>>, filename |-> <<>>,
                size |-> 0, policyId |-> <<>>, claimId |-> <<>>]
    /\ upEnv = NoEnv
    /\ upChecked = <<>>
    /\ upResp = NoUploadResponse

UploadInit ==
    /\ documents = <<>>
    /\ blobs = <<>>
    /\ localFiles = <<>>
    /\ uploadsDir = FALSE
    /\ azureConfigured \in BOOLEAN
    /\ upReq = [userId |-> <<>>, documentType |-> <<>>, filename |-> <<>>,
                size |-> 0, policyId |-> <<>>, claimId |-> <<>>]
    /\ upEnv = NoEnv
    /\ upChecked = <<>>
    /\ upResp = NoUploadResponse
    /\ nCalls = 0

-----------------------------------------------------------------------------
(* document_utils.py and category_mapping.py: the folder-path helpers and the
   category registry.  A string is the sequence of its tokens, as above; a
   category is written over CategoryChars, one character per class of
   characters the normalisation tells apart.  An Optional value is <<>> for
   None and <<v>> for the value v. *)

MaxCategoryLen == 4

\* an upper-case letter, a lower-case letter, a digit, and the characters the
\* normalisation replaces (" ", "_"), keeps ("-") or removes ("/", "(")
CategoryChars == {"D", "c", "7", " ", "_", "-", "/", "("}

\* the strings over CategoryChars of length n
CategoryStringsOfLen(n) == [1..n -> CategoryChars]

CategoryStrings == UNION {CategoryStringsOfLen(n) : n \in 0..MaxCategoryLen}

\* str.replace(old, new) for one-character strings
Replace(s, old, new) ==
    [i \in DOMAIN s |-> IF s[i] = old THEN new ELSE s[i]]

\* the characters matched by [a-z0-9\-]
FolderSafeChars == {"c", "d", "-"} \cup Digits

\* re.sub(r'[^a-z0-9\-]', '', s)
RemoveSpecial(s) == SelectSeq(s, LAMBDA ch : ch \in FolderSafeChars)

\* (mutation) runs of hyphens are kept
CollapseHyphensMissing(s) == s

\* re.sub(r'-+', '-', s)
CollapseHyphens(s) ==
    LET keep == {i \in DOMAIN s : ~(s[i] = "-" /\ i > 1 /\ s[i - 1] = "-")}
        nth(k) == CHOOSE i \in keep : Cardinality({j \in keep : j <= i}) = k
    IN  [k \in 1..Cardinality(keep) |-> s[nth(k)]]

\* str.strip(ch) for a one-character ch
StripChar(s, ch) ==
    LET keep == {i \in DOMAIN s : s[i] # ch}
    IN  IF keep = {} THEN <<>>
        ELSE LET lo == CHOOSE i \in keep : \A j \in keep : i <= j
                 hi == CHOOSE i \in keep : \A j \in keep : j <= i
             IN  SubSeq(s, lo, hi)

\* document_utils.normalize_category_for_folder
normalize_category_for_folder(category) ==
    LET lowered == Lower(category)
        hyphenated == Replace(Replace(lowered, " ", "-"), "_", "-")
        cleaned == RemoveSpecial(hyphenated)
        collapsed == CollapseHyphens(cleaned)
    IN  StripChar(collapsed, "-")

\* category_mapping.normalize_category_id
normalize_category_id(category) ==
    LET lowered == Lower(category)
        hyphenated == Replace(Replace(lowered, " ", "-"), "_", "-")
        cleaned == RemoveSpecial(hyphenated)
        collapsed == CollapseHyphens(cleaned)
    IN  StripChar(collapsed, "-")

\* routers/documents.py: normalize_category_for_folder
documents_normalize_category_for_folder(category) ==
    LET lowered == Lower(category)
        hyphenated == Replace(Replace(lowered, " ", "-"), "_", "-")
        cleaned == RemoveSpecial(hyphenated)
        collapsed == CollapseHyphens(cleaned)
    IN  StripChar(collapsed, "-")

\* "if claimId:" on an Optional[int]: None and 0 are falsy
ClaimIdTruthy(claimId) == claimId # <<>> /\ claimId[1] # 0

\* "if category:" on an Optional[str]: None and "" are falsy
CategoryTruthy(category) == category # <<>> /\ category[1] # <<>>

\* document_utils.derive_folder_path(userId, documentType, claimId, category)
utils_derive_folder_path(userId, documentType, claimId, category) ==
    LET base_folder == FOLDER_MAP(documentType)
    IN  IF documentType = "claim_document"
        THEN IF ClaimIdTruthy(claimId)
             THEN IF CategoryTruthy(category)
                  THEN <<"claims", "/">> \o IntStr(claimId[1]) \o <<"/">>
                           \o normalize_category_for_folder(category[1])
                  ELSE <<"claims", "/">> \o IntStr(claimId[1])
             ELSE IF CategoryTruthy(category)
                  THEN <<"claims", "/", "pending", "/">> \o IntStr(userId)
                           \o <<"/">>
                           \o normalize_category_for_folder(category[1])
                  ELSE <<"claims", "/", "pending", "/">> \o IntStr(userId)
        ELSE <<"users", "/">> \o IntStr(userId) \o <<"/", base_folder>>

\* "sub in s"
Contains(s, sub) ==
    \E i \in 1..(Len(s) - Len(sub) + 1) : SubSeq(s, i, i + Len(sub) - 1) = sub

\* s.split(sep): the pieces between the occurrences of sep, left to right
RECURSIVE Split(_, _)
Split(s, sep) ==
    IF ~Contains(s, sep) THEN <<s>>
    ELSE LET at(i) == SubSeq(s, i, i + Len(sep) - 1) = sep
             first == CHOOSE i \in 1..(Len(s) - Len(sep) + 1) :
                         at(i) /\ \A j \in 1..(i - 1) : ~at(j)
         IN  <<SubSeq(s, 1, first - 1)>>
                 \o Split(SubSeq(s, first + Len(sep), Len(s)), sep)

\* sep.join(parts)
RECURSIVE Join(_, _)
Join(parts, sep) ==
    IF parts = <<>> THEN <<>>
    ELSE IF Len(parts) = 1 THEN parts[1]
    ELSE parts[1] \o sep \o Join(Tail(parts), sep)

\* (mutation) only the file name is dropped, the container name stays
DropFilenameOnly(path_parts) == SubSeq(path_parts, 1, Len(path_parts) - 1)

\* path_parts[1:-1]: skip the container name and the file name
SkipContainerAndFilename(path_parts) ==
    SubSeq(path_parts, 2, Len(path_parts) - 1)

\* document_utils.extract_folder_from_url(url)
extract_folder_from_url(url) ==
    IF Contains(url, <<"/", "uploads", "/">>)
    THEN LET parts == Split(url, <<"/", "uploads", "/">>)
         IN  IF Len(parts) > 1
             THEN LET segments == Split(parts[2], <<"/">>)
                      folder_path ==
                          Join(SubSeq(segments, 1, Len(segments) - 1), <<"/">>)
                  IN  IF folder_path # <<>> THEN <<folder_path>> ELSE <<>>
             ELSE <<>>
    ELSE IF Contains(url, <<"blob.core.windows.net">>)
    THEN LET parts == Split(url, <<"blob.core.windows.net", "/">>)
         IN  IF Len(parts) > 1
             THEN LET path_parts == Split(parts[2], <<"/">>)
                  IN  IF Len(path_parts) > 2
                      THEN LET folder_path ==
                                   Join(SkipContainerAndFilename(path_parts),
                                        <<"/">>)
                           IN  IF folder_path # <<>> THEN <<folder_path>>
                               ELSE <<>>
                      ELSE <<>>
             ELSE <<>>
    ELSE <<>>

\* (mutation) a pending folder counts as categorised from three segments on
PendingHasCategoryFromThree(parts) == Len(parts) >= 3

\* "return len(parts) >= 4": claims/pending/{userId}/{category}
PendingHasCategory(parts) == Len(parts) >= 4

\* document_utils.has_category_folder(url)
has_category_folder(url) ==
    LET folder_path == extract_folder_from_url(url)
    IN  IF folder_path = <<>> THEN FALSE
        ELSE LET parts == Split(folder_path[1], <<"/">>)
             IN  IF Len(parts) >= 3 /\ parts[1] = <<"claims">>
                 THEN IF parts[2] = <<"pending">>
                      THEN PendingHasCategory(parts)
                      ELSE Len(parts) >= 3
                 ELSE FALSE

\* category_mapping.CATEGORY_MAPPING: per claim type, the pairs
\* <<display name, category id>> in the order of the dict
CATEGORY_MAPPING ==
    [life |->
        << <<"Death Certificate", "death-certificate">>,
           <<"Death Claim Form", "claim-form">>,
           <<"Original Policy Document", "policy-document">>,
           <<"Claimant ID Proof", "claimant-id">>,
           <<"Address Proof", "claimant-address">>,
           <<"Medical Records (if illness)", "medical-records">>,
           <<"FIR Copy (if accidental)", "fir-copy">>,
           <<"Post Mortem Report (if applicable)", "post-mortem">>,
           <<"Nominee Relationship Proof", "nominee-proof">>,
           <<"Cancelled Cheque/Bank Statement", "bank-details">> >>,
     health |->
        << <<"Pre-Authorization Form", "pre-auth">>,
           <<"Hospital ID Card", "hospital-id">>,
           <<"Policy Copy", "policy-copy">>,
           <<"Photo ID Proof", "id-proof">>,
           <<"Medical Reports/Prescription", "medical-reports">>,
           <<"Duly Filled Claim Form", "claim-form">>,
           <<"Hospital Bills & Receipts", "hospital-bills">>,
           <<"Discharge Summary", "discharge-summary">>,
           <<"Investigation Reports", "medical-reports">>,
           <<"Doctor's Prescription", "prescription">>,
           <<"Payment Receipts", "payment-receipts">>,
           <<"Cancelled Cheque", "cancelled-cheque">> >>,
     car |->
        << <<"Duly Filled Claim Form", "claim-form">>,
           <<"Policy Copy", "policy-copy">>,
           <<"RC Book Copy", "rc-copy">>,
           <<"Driving License", "driving-license">>,
           <<"FIR Copy", "fir-copy">>,
           <<"Vehicle Damage Photos", "damage-photos">>,
           <<"Repair Estimate/Invoice", "repair-estimate">>,
           <<"Survey Report", "survey-report">>,
           <<"Third Party Documents", "third-party-docs">> >>]

\* category_mapping.get_category_id(claim_type, document_name)
get_category_id(claim_type, document_name) ==
    IF claim_type \notin DOMAIN CATEGORY_MAPPING THEN <<>>
    ELSE LET pairs == CATEGORY_MAPPING[claim_type]
             hits == {i \in DOMAIN pairs : pairs[i][1] = document_name}
         IN  IF hits = {} THEN <<>>
             ELSE <<pairs[CHOOSE i \in hits : TRUE][2]>>

\* category_mapping.get_document_name(claim_type, category_id): the first
\* display name, in dict order, that maps to the id
get_document_name(claim_type, category_id) ==
    IF claim_type \notin DOMAIN CATEGORY_MAPPING THEN <<>>
    ELSE LET pairs == CATEGORY_MAPPING[claim_type]
             hits == {i \in DOMAIN pairs : pairs[i][2] = category_id}
         IN  IF hits = {} THEN <<>>
             ELSE <<pairs[CHOOSE i \in hits : \A j \in hits : i <= j][1]>>

\* the URL the upload handler builds for a file stored locally:
\* f"{base_url}/uploads/{folder}/{unique_name}"
LocalUrl(base_url, folder, unique_name) ==
    base_url \o <<"/", "uploads", "/">> \o folder \o <<"/">> \o unique_name

\* the URL of a blob: https://{account}.blob.core.windows.net/{container}/{blob}
CloudUrl(container, folder, unique_name) ==
    <<"https:", "/", "/", "account", ".", "blob.core.windows.net", "/",
      container, "/">> \o folder \o <<"/">> \o unique_name

\* inputs of the helpers
PathUserIds == {0, 42, 0 - 5}
PathDocumentTypes == {"claim_document", "kyc_document", "other", "bogus"}
PathClaimIds == {<<>>, <<0>>, <<45>>}
PathCategories ==
    {<<>>} \cup {<<s>> : s \in {<<>>, <<"D", " ", "c">>, <<"(">>,
                                <<"c", "-", "7">>}}
PathHosts ==
    { [base_url |-> <<"http:", "/", "/", "localhost:8000">>,
       container |-> "insurance-documents"],
      [base_url |-> <<"https:", "/", "/", "api", ".", "example", ".", "com">>,
       container |-> "uploads"] }
PathFilename == <<"uuid", ".", "pdf">>

RegistryClaimTypes == {"life", "health", "car", "travel"}
RegistryNames ==
    UNION { {CATEGORY_MAPPING[t][i][1] : i \in DOMAIN CATEGORY_MAPPING[t]} :
              t \in DOMAIN CATEGORY_MAPPING } \cup {"Unknown"}

NoUtilIn ==
    [userId |-> 0, documentType |-> "", claimId |-> <<>>, category |-> <<>>,
     base_url |-> <<>>, container |-> "", text |-> <<>>,
     claim_type |-> "", document_name |-> ""]

NoUtilOut ==
    [key |-> <<>>, localFolder |-> <<>>, cloudFolder |-> <<>>,
     hasLocal |-> FALSE, hasCloud |-> FALSE,
     once |-> <<>>, twice |-> <<>>, category_id |-> <<>>, display |-> <<>>]

PathInputs ==
    { [NoUtilIn EXCEPT !.userId = u, !.documentType = d, !.claimId = c,
                       !.category = g, !.base_url = h.base_url,
                       !.container = h.container] :
        u \in PathUserIds, d \in PathDocumentTypes, c \in PathClaimIds,
        g \in PathCategories, h \in PathHosts }

NormalizeInputs == {[NoUtilIn EXCEPT !.text = x] : x \in CategoryStrings}

RegistryInputs ==
    { [NoUtilIn EXCEPT !.claim_type = t, !.document_name = n] :
        t \in RegistryClaimTypes, n \in RegistryNames }

\* a call of derive_folder_path
Derive ==
    /\ utKind = "path" /\ utStage = "input"
    /\ utOut' = [utOut EXCEPT !.key =
                    utils_derive_folder_path(utIn.userId, utIn.documentType,
                                             utIn.claimId, utIn.category)]
    /\ utStage' = "derived"
    /\ UNCHANGED <<utKind, utIn>>

\* extract_folder_from_url on the local and on the cloud URL of the folder
ExtractFolder ==
    /\ utKind = "path" /\ utStage = "derived"
    /\ utOut' = [utOut EXCEPT
                    !.localFolder = extract_folder_from_url(
                        LocalUrl(utIn.base_url, utOut.key, PathFilename)),
                    !.cloudFolder = extract_folder_from_url(
                        CloudUrl(utIn.container, utOut.key, PathFilename))]
    /\ utStage' = "extracted"
    /\ UNCHANGED <<utKind, utIn>>

\* has_category_folder on the same two URLs
HasCategoryFolder ==
    /\ utKind = "path" /\ utStage = "extracted"
    /\ utOut' = [utOut EXCEPT
                    !.hasLocal = has_category_folder(
                        LocalUrl(utIn.base_url, utOut.key, PathFilename)),
                    !.hasCloud = has_category_folder(
                        CloudUrl(utIn.container, utOut.key, PathFilename))]
    /\ utStage' = "done"
    /\ UNCHANGED <<utKind, utIn>>

\* the three copies of the normalisation, applied to the input
Normalize ==
    /\ utKind = "normalize" /\ utStage = "input"
    /\ utOut' = [utOut EXCEPT !.once =
                    <<normalize_category_for_folder(utIn.text),
                      normalize_category_id(utIn.text),
                      documents_normalize_category_for_folder(utIn.text)>>]
    /\ utStage' = "normalized"
    /\ UNCHANGED <<utKind, utIn>>

\* each copy applied to its own result
NormalizeAgain ==
    /\ utKind = "normalize" /\ utStage = "normalized"
    /\ utOut' = [utOut EXCEPT !.twice =
                    <<normalize_category_for_folder(utOut.once[1]),
                      normalize_category_id(utOut.once[2]),
                      documents_normalize_category_for_folder(utOut.once[3])>>]
    /\ utStage' = "done"
    /\ UNCHANGED <<utKind, utIn>>

\* a call of get_category_id
GetCategoryId ==
    /\ utKind = "registry" /\ utStage = "input"
    /\ utOut' = [utOut EXCEPT !.category_id =
                    get_category_id(utIn.claim_type, utIn.document_name)]
    /\ utStage' = "identified"
    /\ UNCHANGED <<utKind, utIn>>

\* a call of get_document_name on the id that was returned
GetDocumentName ==
    /\ utKind = "registry" /\ utStage = "identified"
    /\ utOut.category_id # <<>>
    /\ utOut' = [utOut EXCEPT !.display =
                    get_document_name(utIn.claim_type, utOut.category_id[1])]
    /\ utStage' = "done"
    /\ UNCHANGED <<utKind, utIn>>

\* the helpers at rest
UtilIdle ==
    /\ utKind = "none"
    /\ utIn = NoUtilIn
    /\ utStage = "input"
    /\ utOut = NoUtilOut

UtilInit ==
    /\ \/ utKind = "path" /\ utIn \in PathInputs
       \/ utKind = "normalize" /\ utIn \in NormalizeInputs
       \/ utKind = "registry" /\ utIn \in RegistryInputs
    /\ utStage = "input"
    /\ utOut = NoUtilOut

-----------------------------------------------------------------------------
(* routers/agent_integration.py: the admin surface on an application process
   (GET /agent/application/{id}, POST /agent/review, /agent/step/complete,
   /agent/step/rollback).  A step of a step history and an entry of an audit
   trail are dicts; isoformat timestamps are the value of the clock. *)

\* str(step_id) for the one-digit step ids of the model
StepIdStr(step_id) == CHOOSE ch \in Digits : DigitValue(ch) = step_id

\* "step.get('id') == step_id or step.get('name') == step_name"
StepMatches(step, step_id, step_name) ==
    \/ "id" \in DOMAIN step /\ step["id"] = step_id
    \/ "name" \in DOMAIN step /\ step["name"] = step_name

\* (mutation) the loop does not stop at the first match
FirstMatchLast(step_history, step_id, step_name) ==
    LET hits == {i \in DOMAIN step_history :
                    StepMatches(step_history[i], step_id, step_name)}
    IN  IF hits = {} THEN 0 ELSE CHOOSE i \in hits : \A j \in hits : i >= j

\* the index of the step at which the "for step in step_history" loop stops,
\* 0 when it runs to the end
FirstMatch(step_history, step_id, step_name) ==
    LET hits == {i \in DOMAIN step_history :
                    StepMatches(step_history[i], step_id, step_name)}
    IN  IF hits = {} THEN 0 ELSE CHOOSE i \in hits : \A j \in hits : i <= j

\* "Get current step history": the dedicated column when it is not empty,
\* else the copy nested in agentData, else []
LoadStepHistory(process) ==
    IF process["stepHistory"] # <<>>
    THEN [from |-> "column", steps |-> process["stepHistory"]]
    ELSE IF Get(process["agentData"], "stepHistory", <<>>) # <<>>
    THEN [from |-> "agentData", steps |-> process["agentData"]["stepHistory"]]
    ELSE [from |-> "none", steps |-> <<>>]

\* "if admin_id: step['admin_id'] = admin_id"
AdminIdField(admin_id) ==
    IF Truthy(admin_id) THEN "admin_id" :> admin_id ELSE EmptyDict

\* the fields the completion loop sets on the matched step
CompleteStep(step, admin_notes, admin_id, now) ==
    ("status" :> "completed") @@ ("completed_by" :> "human")
        @@ ("admin_notes" :> admin_notes) @@ ("completed_at" :> now)
        @@ ("completion_method" :> "manual") @@ AdminIdField(admin_id) @@ step

\* new_step: the step appended when no step of the history matched
NewCompletedStep(step_id, step_name, admin_notes, admin_id, now) ==
    ("id" :> step_id) @@ ("name" :> step_name) @@ ("status" :> "completed")
        @@ ("completed_by" :> "human") @@ ("admin_notes" :> admin_notes)
        @@ ("completed_at" :> now) @@ ("completion_method" :> "manual")
        @@ ("timestamp" :> now) @@ ("summary" :> "Manually completed by admin")
        @@ AdminIdField(admin_id)

\* "rollback_reason or 'Rolled back by admin'"
ReasonOrDefault(rollback_reason) ==
    IF Truthy(rollback_reason) THEN rollback_reason ELSE "Rolled back by admin"

\* the fields the rollback loop sets on the matched step
RollbackStep(step, rollback_reason, admin_id, now) ==
    ("status" :> "pending")
        @@ ("rollback_reason" :> ReasonOrDefault(rollback_reason))
        @@ ("rolled_back_at" :> now)
        @@ ("rolled_back_by" :> IF Truthy(admin_id) THEN admin_id ELSE "admin")
        @@ ("previous_completion" :>
                [completed_by |-> Get(step, "completed_by", NULL),
                 completed_at |-> Get(step, "completed_at", NULL),
                 admin_notes |-> Get(step, "admin_notes", NULL)])
        @@ step

\* (mutation) every matched step may be rolled back
NotManuallyCompletedIgnored(step) == FALSE

\* "if step.get('completed_by') != 'human'": the rollback is refused
NotManuallyCompleted(step) == Get(step, "completed_by", NULL) # "human"

\* agent_data = process.agentData or {}; the history is stored in it when it
\* has no "stepHistory" key.  When the loop ran on the nested copy its steps
\* are the very dicts of agentData, so a step changed in place is changed
\* there too, while an appended step is not in the nested list.
UpdateAgentData(process, loaded, step_history, matched) ==
    LET agent_data == process["agentData"]
    IN  IF "stepHistory" \notin DOMAIN agent_data
        THEN ("stepHistory" :> step_history) @@ agent_data
        ELSE IF loaded.from = "agentData" /\ matched # 0
        THEN ("stepHistory" :> step_history) @@ agent_data
        ELSE agent_data

\* admin_name: the name of the User row when the lookup finds one, else the
\* admin id, else "Admin"
AdminName(admin_id, adminFound) ==
    IF Truthy(admin_id)
    THEN IF adminFound THEN "Asha" ELSE admin_id
    ELSE "Admin"

\* "for step in step_history: if status in [pending, in_progress,
\* in-progress]": the name of the first such step, NULL when there is none
NextPendingStep(step_history) ==
    LET open == {i \in DOMAIN step_history :
                    Get(step_history[i], "status", NULL)
                        \in {"pending", "in_progress", "in-progress"}}
    IN  IF open = {} THEN NULL
        ELSE Get(step_history[CHOOSE i \in open : \A j \in open : i <= j],
                 "name", "unknown")

\* (mutation) every completed step is taken for the current one
IsCurrentStepAlways(process, step_id, step_name) == TRUE

\* "if process.currentStep == step_name or process.currentStep == str(step_id)"
IsCurrentStep(process, step_id, step_name) ==
    \/ process["currentStep"] = step_name
    \/ process["currentStep"] = StepIdStr(step_id)

\* the response of a handler: a status code, a message, and the row or
\* projection that is the body of a 200
NoBody == [none |-> TRUE]

WfError(code, detail) == [code |-> code, detail |-> detail, body |-> NoBody]

WfOk(detail, body) == [code |-> 200, detail |-> detail, body |-> body]

\* the status a review action maps to
ReviewStatus(action) ==
    CASE action = "approve" -> "approved"
      [] action = "reject" -> "rejected"
      [] action = "request_docs" -> "ask_for_document"
      [] action = "escalate" -> "escalate_to_senior"

\* "requests.post(..., timeout=...)" inside try/except: sent, and delivered
\* or failed, without effect on the handler
Notify(trace, outcome) ==
    Append(trace, IF outcome = "ok" THEN "notify_delivered" ELSE "notify_failed")

\* (mutation) a notification that fails fails the request
AfterNotifyPropagates(resp, outcome) ==
    IF outcome = "failed" THEN WfError(500, "Internal Server Error") ELSE resp

\* "except Exception as e: print(...)" around requests.post: the handler goes
\* on to its return statement whatever the notification did
AfterNotify(resp, outcome) == resp

\* the master Claim update of the review decision raises; nothing catches it
MasterUpdateRaises(env) == env.master = "raises"

\* POST /agent/review
submit_review_decision(req, env) ==
    LET application_id == req.application_id
        pidx == RowIndex(applicationProcess, application_id)
        cidx == IF pidx # 0 THEN 0
                ELSE RowIndex(claimApplication, application_id)
        update_data ==
            ("lastUpdated" :> today) @@ ("reviewReason" :> req.reason)
                @@ ("status" :> ReviewStatus(req.action))
    IN  IF pidx = 0 /\ cidx = 0
        THEN /\ wfResp' = WfError(404, "Application process not found")
             /\ wfTrace' = <<>>
             /\ UNCHANGED <<applicationProcess, claimApplication, claim>>
        ELSE IF pidx # 0
        THEN /\ applicationProcess' =
                    update_by_id(applicationProcess,
                                 applicationProcess[pidx]["id"], update_data)
             /\ UNCHANGED <<claimApplication, claim>>
             /\ wfTrace' = Notify(<<"primary_write">>, env.notify)
             /\ wfResp' = AfterNotify(WfOk("Review action submitted successfully",
                                           NoBody), env.notify)
        ELSE LET process == claimApplication[cidx]
             IN  /\ claimApplication' =
                        update_by_id(claimApplication, process["id"], update_data)
                 /\ UNCHANGED applicationProcess
                 /\ IF Truthy(process["claim_record_id"])
                    THEN IF MasterUpdateRaises(env)
                         THEN /\ UNCHANGED claim
                              /\ wfTrace' = <<"primary_write", "master_raised">>
                              /\ wfResp' = WfError(500, "Internal Server Error")
                         ELSE /\ claim' = [claim EXCEPT
                                    ![process["claim_record_id"]] =
                                        update_data["status"]]
                              /\ wfTrace' = Notify(<<"primary_write",
                                                     "master_write">>, env.notify)
                              /\ wfResp' = AfterNotify(
                                     WfOk("Review action submitted successfully",
                                          NoBody), env.notify)
                    ELSE /\ UNCHANGED claim
                         /\ wfTrace' = Notify(<<"primary_write">>, env.notify)
                         /\ wfResp' = AfterNotify(
                                WfOk("Review action submitted successfully",
                                     NoBody), env.notify)

\* POST /agent/step/complete
complete_step_manually(req, env) ==
    LET idx == RowIndex(applicationProcess, req.application_id)
    IN  IF idx = 0
        THEN /\ wfResp' = WfError(404, "Application process not found")
             /\ wfTrace' = <<>>
             /\ UNCHANGED <<applicationProcess, claimApplication, claim>>
        ELSE LET process == applicationProcess[idx]
                 loaded == LoadStepHistory(process)
                 matched == FirstMatch(loaded.steps, req.step_id, req.step_name)
                 previous_status ==
                     IF matched = 0 THEN "pending"
                     ELSE Get(loaded.steps[matched], "status", "pending")
                 step_history ==
                     IF matched # 0
                     THEN [loaded.steps EXCEPT ![matched] =
                              CompleteStep(@, req.admin_notes, req.admin_id, today)]
                     ELSE Append(loaded.steps,
                                 NewCompletedStep(req.step_id, req.step_name,
                                                  req.admin_notes, req.admin_id,
                                                  today))
                 agent_data == UpdateAgentData(process, loaded, step_history,
                                               matched)
                 audit_entry ==
                     [timestamp |-> today, action |-> "manual_step_completion",
                      step_name |-> req.step_name, step_id |-> req.step_id,
                      admin_name |-> AdminName(req.admin_id, env.adminFound),
                      admin_id |-> req.admin_id,
                      admin_notes |-> req.admin_notes,
                      previous_status |-> previous_status,
                      new_status |-> "completed"]
                 next_step == NextPendingStep(step_history)
                 update_data ==
                     (IF IsCurrentStep(process, req.step_id, req.step_name)
                         /\ next_step # NULL
                      THEN "currentStep" :> next_step ELSE EmptyDict)
                     @@ ("stepHistory" :> step_history)
                     @@ ("agentData" :> agent_data)
                     @@ ("auditTrail" :> Append(process["auditTrail"], audit_entry))
                     @@ ("lastUpdated" :> today)
                 table == update_by_id(applicationProcess, process["id"],
                                       update_data)
             IN  /\ applicationProcess' = table
                 /\ UNCHANGED <<claimApplication, claim>>
                 /\ wfTrace' = Notify(<<"primary_write">>, env.notify)
                 /\ wfResp' = AfterNotify(WfOk("", table[idx]), env.notify)

\* POST /agent/step/rollback
rollback_step_completion(req, env) ==
    LET idx == RowIndex(applicationProcess, req.application_id)
    IN  IF idx = 0
        THEN /\ wfResp' = WfError(404, "Application process not found")
             /\ wfTrace' = <<>>
             /\ UNCHANGED <<applicationProcess, claimApplication, claim>>
        ELSE LET process == applicationProcess[idx]
                 loaded == LoadStepHistory(process)
                 matched == FirstMatch(loaded.steps, req.step_id, req.step_name)
             IN  IF matched = 0
                 THEN /\ wfResp' = WfError(404, "Step not found in step history")
                      /\ wfTrace' = <<>>
                      /\ UNCHANGED <<applicationProcess, claimApplication, claim>>
                 ELSE IF NotManuallyCompleted(loaded.steps[matched])
                 THEN /\ wfResp' = WfError(400, "Step was not manually completed")
                      /\ wfTrace' = <<>>
                      /\ UNCHANGED <<applicationProcess, claimApplication, claim>>
                 ELSE LET step_history ==
                              [loaded.steps EXCEPT ![matched] =
                                  RollbackStep(@, req.rollback_reason,
                                               req.admin_id, today)]
                          agent_data == UpdateAgentData(process, loaded,
                                                        step_history, matched)
                          audit_entry ==
                              [timestamp |-> today, action |-> "step_rollback",
                               step_name |-> req.step_name,
                               step_id |-> req.step_id,
                               admin_name |-> AdminName(req.admin_id,
                                                        env.adminFound),
                               admin_id |-> req.admin_id,
                               rollback_reason |->
                                   ReasonOrDefault(req.rollback_reason)]
                          update_data ==
                              (IF IsCurrentStep(process, req.step_id,
                                                req.step_name)
                               THEN "currentStep" :> req.step_name
                               ELSE EmptyDict)
                              @@ ("stepHistory" :> step_history)
                              @@ ("agentData" :> agent_data)
                              @@ ("auditTrail" :>
                                      Append(process["auditTrail"], audit_entry))
                              @@ ("lastUpdated" :> today)
                          table == update_by_id(applicationProcess,
                                                process["id"], update_data)
                      IN  /\ applicationProcess' = table
                          /\ UNCHANGED <<claimApplication, claim>>
                          /\ wfTrace' = <<"primary_write">>
                          /\ wfResp' = WfOk("", table[idx])

\* hash(application_id): the value depends on the string and on the hash
\* seed the interpreter drew when the process started
StrHash(seed, s) ==
    LET n == CASE s = "M1" -> 1234567 [] s = "M2" -> 0 - 2000001
               [] s = "M3" -> 999999 [] OTHER -> 0 - 1
    IN  IF seed = 0 THEN n ELSE 7 * n + 13

\* "fake_id = int(hash(application_id) % 1000000);
\*  if fake_id < 0: fake_id = -fake_id"
FakeId(seed, application_id) ==
    LET fake_id == StrHash(seed, application_id) % 1000000
    IN  IF fake_id < 0 THEN 0 - fake_id ELSE fake_id

\* (mutation) only an approved claim is at the terminal step
InferCurrentStepApprovedOnly(status) ==
    IF status = "approved" THEN "final_decision" ELSE "ingest"

\* current_step = "ingest"; "final_decision" if status is approved or rejected
InferCurrentStep(status) ==
    IF status = "approved" THEN "final_decision"
    ELSE IF status = "rejected" THEN "final_decision"
    ELSE "ingest"

\* datetime.fromisoformat(created_at.replace('Z', '+00:00')).date(), inside
\* try/except: the fallback stays when the string does not parse
\* a created_at that is a datetime, not a string, gives its own date
StartTime(doc, now) ==
    IF Truthy(Get(doc, "created_at", NULL))
    THEN IF doc["created_at"] = "2024-01-05T10:00:00Z" THEN "2024-01-05"
         ELSE IF doc["created_at"] \in {"day1", "day2"} THEN doc["created_at"]
         ELSE now
    ELSE now

\* doc.get("user_id") or doc.get("userId")
CustomerId(doc) ==
    IF Truthy(Get(doc, "user_id", NULL)) THEN doc["user_id"]
    ELSE Get(doc, "userId", NULL)

\* process_dict: the projection synthesized from a document-store record
MongoProjection(application_id, doc, seed, now) ==
    LET status == Get(doc, "status", "new_claim")
    IN  [id |-> FakeId(seed, application_id),
         applicationId |-> application_id,
         status |-> status,
         currentStep |-> InferCurrentStep(status),
         applicationtype |-> "claim",
         startTime |-> StartTime(doc, now),
         lastUpdated |-> now,
         agentData |-> doc,
         stepHistory |-> Get(doc, "step_history", <<>>),
         auditTrail |-> <<>>,
         customerId |-> CustomerId(doc),
         reviewReason |-> NULL]

\* (mutation) there is no read-repair from the document store
DocFoundNever(env, application_id) == FALSE

\* "if db_mongo:" ... "doc = await ...find_one({'_id': application_id})",
\* "if doc:", all inside try/except: a record is found when the store is
\* attached, answers, and holds the id
DocFound(env, application_id) ==
    env.mongo = "ok" /\ application_id \in DOMAIN mongoClaims

\* GET /agent/application/{application_id}
get_application(req, env) ==
    LET application_id == req.application_id
        pidx == RowIndex(applicationProcess, application_id)
        cidx == RowIndex(claimApplication, application_id)
    IN  /\ UNCHANGED <<applicationProcess, claimApplication, claim>>
        /\ wfTrace' = <<>>
        /\ IF pidx # 0
           THEN wfResp' = WfOk("row", applicationProcess[pidx])
           ELSE IF cidx # 0
           THEN wfResp' = WfOk("row", claimApplication[cidx])
           ELSE IF DocFound(env, application_id)
           THEN wfResp' = WfOk("fallback",
                               MongoProjection(application_id,
                                               mongoClaims[application_id],
                                               hashSeed, today))
           ELSE wfResp' = WfError(404, "Application process not found")

\* a request to the admin surface is received: what every handler leaves
\* alone
Received(req, env) ==
    /\ nCalls < MaxCalls
    /\ nCalls' = nCalls + 1
    /\ wfReq' = req
    /\ wfEnv' = env
    /\ UNCHANGED <<today, syncReq, syncFault, syncResp, uploadVars, utilVars,
                   inflight,
                   mongoClaims, hashSeed>>

NoWfReq ==
    [op |-> "none", application_id |-> "", action |-> "", reason |-> NULL,
     step_id |-> 0, step_name |-> "", admin_notes |-> "", admin_id |-> NULL,
     rollback_reason |-> NULL]

NoWfEnv == [master |-> "ok", notify |-> "ok", mongo |-> "ok",
            adminFound |-> FALSE, tracking |-> "ok"]

\* the steps a request may name: by id and name of the same step, by a name
\* only, by the id of one step and the name of another, or a step that the
\* history does not hold
StepTargets ==
    { [step_id |-> 1, step_name |-> "ingest"],
      [step_id |-> 2, step_name |-> "review"],
      [step_id |-> 7, step_name |-> "decision"],
      [step_id |-> 2, step_name |-> "ingest"],
      [step_id |-> 9, step_name |-> "payout"] }

ReviewRequests ==
    { [NoWfReq EXCEPT !.op = "review", !.application_id = q[1],
                      !.action = q[2], !.reason = q[3]] :
        q \in { <<"P1", "approve", "late">>,
                <<"P1", "request_docs", "late">>,
                <<"C1", "reject", NULL>>,
                <<"C1", "escalate", "late">>,
                <<"C2", "approve", NULL>>,
                <<"N1", "approve", NULL>>,
                <<"X9", "approve", NULL>> } }

CompleteRequests ==
    { [NoWfReq EXCEPT !.op = "complete", !.application_id = "P1",
                      !.step_id = t.step_id, !.step_name = t.step_name,
                      !.admin_notes = "checked"] : t \in StepTargets }
    \cup
    { [NoWfReq EXCEPT !.op = "complete", !.application_id = "P1",
                      !.step_id = 7, !.step_name = "decision",
                      !.admin_notes = "checked", !.admin_id = "7"],
      [NoWfReq EXCEPT !.op = "complete", !.application_id = "C1",
                      !.step_id = 1, !.step_name = "ingest",
                      !.admin_notes = "checked"] }

RollbackRequests ==
    { [NoWfReq EXCEPT !.op = "rollback", !.application_id = "P1",
                      !.step_id = t.step_id, !.step_name = t.step_name] :
        t \in StepTargets }
    \cup
    { [NoWfReq EXCEPT !.op = "rollback", !.application_id = "P1",
                      !.step_id = 2, !.step_name = "review",
                      !.admin_id = "7", !.rollback_reason = "mistake"],
      [NoWfReq EXCEPT !.op = "rollback", !.application_id = "X9",
                      !.step_id = 2, !.step_name = "review"] }

GetRequests ==
    { [NoWfReq EXCEPT !.op = "get", !.application_id = a] :
        a \in {"P1", "C1", "M1", "M2", "M3", "M4", "N1", "X9"} }

\* what the collaborators do to a request: the agent notification and, for
\* the linked claim application, the master Claim update of a review; the
\* notification and the admin lookup of a completion; the admin lookup of a
\* rollback; the document store of a read
WfEnvs(req) ==
    CASE req.op = "review" ->
            {[NoWfEnv EXCEPT !.master = m, !.notify = n] :
                m \in IF req.application_id = "C1" THEN {"ok", "raises"}
                      ELSE {"ok"},
                n \in {"ok", "failed"}}
      [] req.op = "complete" ->
            {[NoWfEnv EXCEPT !.notify = n, !.adminFound = f] :
                n \in {"ok", "failed"},
                f \in IF Truthy(req.admin_id) THEN BOOLEAN ELSE {FALSE}}
      [] req.op = "rollback" ->
            {[NoWfEnv EXCEPT !.adminFound = f] :
                f \in IF Truthy(req.admin_id) THEN BOOLEAN ELSE {FALSE}}
      [] req.op = "get" ->
            {[NoWfEnv EXCEPT !.mongo = m] :
                m \in IF req.application_id \in {"M1", "N1"}
                      THEN {"ok", "absent", "raises"} ELSE {"ok"}}

Review ==
    \E req \in ReviewRequests : \E env \in WfEnvs(req) :
        Received(req, env) /\ submit_review_decision(req, env)

Complete ==
    \E req \in CompleteRequests : \E env \in WfEnvs(req) :
        Received(req, env) /\ complete_step_manually(req, env)

Rollback ==
    \E req \in RollbackRequests : \E env \in WfEnvs(req) :
        Received(req, env) /\ rollback_step_completion(req, env)

GetApplication ==
    \E req \in GetRequests : \E env \in WfEnvs(req) :
        Received(req, env) /\ get_application(req, env)

\* the server process is restarted: the tables and the document store stay,
\* the interpreter draws a new string-hash seed (hash randomisation)
HashSeeds == {0, 1}

Restart ==
    /\ hashSeed' \in HashSeeds \ {hashSeed}
    /\ UNCHANGED <<syncVars, uploadVars, utilVars, nCalls, mongoClaims, inflight,
                   wfReq, wfEnv, wfTrace, wfResp>>

\* the step history of the seeded policy application: a step the agent
\* completed, a step an admin completed, a step that is pending
SeededSteps ==
    << [id |-> 1, name |-> "ingest", status |-> "completed",
        completed_by |-> "agent"],
       [id |-> 2, name |-> "review", status |-> "completed",
        completed_by |-> "human", admin_notes |-> "ok",
        completed_at |-> StaleDay, completion_method |-> "manual"],
       [id |-> 3, name |-> "decision", status |-> "pending"] >>

\* the same application before its review: two steps are pending
PendingSteps ==
    << [id |-> 1, name |-> "ingest", status |-> "completed",
        completed_by |-> "agent"],
       [id |-> 2, name |-> "review", status |-> "pending"],
       [id |-> 3, name |-> "decision", status |-> "pending"] >>

\* the policy-track application P1; its history is in the dedicated column,
\* in agentData, or in both; the agent's payload carries the step the
\* application was at when the agent last synced it
SeededApplication(steps, currentStep, column, nested) ==
    [id |-> 1, applicationId |-> "P1", applicationtype |-> "policy",
     status |-> "pending", currentStep |-> currentStep,
     stepHistory |-> IF column THEN steps ELSE <<>>,
     auditTrail |-> <<>>,
     agentData |-> (IF nested THEN "stepHistory" :> steps ELSE EmptyDict)
                       @@ ("source" :> "agent")
                       @@ ("currentStep" :> currentStep),
     lastUpdated |-> StaleDay, reviewReason |-> NULL]

\* a claim-track application, linked to a master Claim or to none
SeededClaimApplication(id, applicationId, claim_record_id) ==
    [id |-> id, applicationId |-> applicationId, applicationtype |-> "claim",
     status |-> "pending", currentStep |-> "ingest", stepHistory |-> <<>>,
     auditTrail |-> <<>>, agentData |-> ("source" :> "agent"),
     lastUpdated |-> StaleDay, reviewReason |-> NULL,
     claim_record_id |-> claim_record_id]

\* the claims collection of the document store: claims whose relational row
\* was never written
SeededMongoClaims ==
    [a \in {"M1", "M2", "M3", "M4"} |->
        ("_id" :> a) @@
        CASE a = "M1" -> [status |-> "approved", user_id |-> "u1",
                          created_at |-> "2024-01-05T10:00:00Z",
                          step_history |-> <<[name |-> "ingest"]>>]
          [] a = "M2" -> [status |-> "rejected", userId |-> "u2",
                          created_at |-> "yesterday"]
          [] a = "M3" -> [status |-> "submitted"]
          [] a = "M4" -> [userId |-> "u4"]]

WfIdle ==
    /\ mongoClaims = SeededMongoClaims
    /\ hashSeed = 0
    /\ wfReq = NoWfReq
    /\ wfEnv = NoWfEnv
    /\ wfTrace = <<>>
    /\ wfResp = WfError(0, "")

WfInit ==
    /\ \E seeded \in {<<SeededSteps, "review">>, <<SeededSteps, "decision">>,
                       <<PendingSteps, "review">>} :
       \E copies \in {<<TRUE, FALSE>>, <<TRUE, TRUE>>, <<FALSE, TRUE>>} :
          applicationProcess =
              <<SeededApplication(seeded[1], seeded[2], copies[1], copies[2])>>
    /\ claimApplication = <<SeededClaimApplication(1, "C1", "c1"),
                            SeededClaimApplication(2, "C2", NULL)>>
    /\ claim = [c \in ClaimIds |-> "Submitted"]
    /\ today = "day1"
    /\ syncReq = EmptyDict
    /\ syncFault = "none"
    /\ syncResp = NoResponse
    /\ nCalls = 0
    /\ mongoClaims = SeededMongoClaims
    /\ hashSeed \in HashSeeds
    /\ wfReq = NoWfReq
    /\ wfEnv = NoWfEnv
    /\ wfTrace = <<>>
    /\ wfResp = WfError(0, "")

-----------------------------------------------------------------------------
(* routers/claims.py: claim intake into the document store, and the agent
   surface on the applications it creates *)

\* str(ObjectId()): an id that was never used
NewClaimIds ==
    {a \in {"N1"} : /\ a \notin DOMAIN mongoClaims
                    /\ RowIndex(applicationProcess, a) = 0
                    /\ RowIndex(claimApplication, a) = 0}

\* the bodies of POST /claims/application: with or without a claim object
ClaimPayloads ==
    { [user_id |-> "u1"],
      [userId |-> "u2", claim |-> [status |-> "Filed"]] }

\* POST /claims/application
create_claim_application(payload, env, doc_id) ==
    LET withClaim == "claim" \in DOMAIN payload /\ env.master = "ok"
        doc == ("_id" :> doc_id) @@ ("updated_at" :> today)
                 @@ (IF withClaim THEN "claim" :> "c3" ELSE EmptyDict)
                 @@ payload @@ ("created_at" :> today)
        process_data ==
            [applicationId |-> doc_id, status |-> "Submitted",
             currentStep |-> "ingest", startTime |-> today,
             lastUpdated |-> today, customerId |-> CustomerId(doc),
             agentData |-> EmptyDict, stepHistory |-> <<>>]
    IN  /\ claim' = IF withClaim
                    THEN ("c3" :> Get(payload["claim"], "status", "Submitted"))
                             @@ claim
                    ELSE claim
        /\ IF env.mongo # "ok"
           THEN /\ wfResp' = WfError(500, "Internal Server Error")
                /\ wfTrace' = <<>>
                /\ UNCHANGED <<mongoClaims, applicationProcess>>
           ELSE /\ mongoClaims' = (doc_id :> doc) @@ mongoClaims
                /\ applicationProcess' =
                      IF env.tracking = "ok"
                      THEN create_entry(applicationProcess,
                                        ApplicationProcessColumns, process_data)
                      ELSE applicationProcess
                /\ wfTrace' = IF env.tracking = "ok"
                              THEN <<"document_write", "primary_write">>
                              ELSE <<"document_write">>
                /\ wfResp' = [code |-> 201, detail |-> "created",
                              body |-> [id |-> doc_id]]
        /\ UNCHANGED claimApplication

\* DELETE /claims/application/{app_id}
delete_claim_application(app_id) ==
    /\ IF app_id \in DOMAIN mongoClaims
       THEN /\ mongoClaims' = [a \in DOMAIN mongoClaims \ {app_id} |->
                                 mongoClaims[a]]
            /\ wfResp' = [code |-> 204, detail |-> "", body |-> NoBody]
       ELSE /\ UNCHANGED mongoClaims
            /\ wfResp' = WfError(404, "Claim application not found")
    /\ wfTrace' = <<>>
    /\ UNCHANGED <<applicationProcess, claimApplication, claim>>

\* a request to the claims router is received
ReceivedClaims(req, env) ==
    /\ nCalls < MaxCalls
    /\ nCalls' = nCalls + 1
    /\ wfReq' = req
    /\ wfEnv' = env
    /\ UNCHANGED <<today, syncReq, syncFault, syncResp, uploadVars, utilVars,
                   inflight, hashSeed>>

CreateClaimApplication ==
    \E payload \in ClaimPayloads : \E doc_id \in NewClaimIds :
    \E env \in {[NoWfEnv EXCEPT !.tracking = t, !.master = m, !.mongo = d] :
                   t \in {"ok", "raises"},
                   m \in IF "claim" \in DOMAIN payload THEN {"ok", "raises"}
                         ELSE {"ok"},
                   d \in {"ok", "raises"}} :
        /\ ReceivedClaims([NoWfReq EXCEPT !.op = "create"], env)
        /\ create_claim_application(payload, env, doc_id)

DeleteClaimApplication ==
    \E app_id \in {"N1", "M1"} :
        /\ ReceivedClaims([NoWfReq EXCEPT !.op = "delete",
                                          !.application_id = app_id], NoWfEnv)
        /\ delete_claim_application(app_id)

\* the syncs the agent sends for the applications of the admin surface: the
\* policy application P1 and the claim N1, which the agent syncs as a claim
\* or without a type; with the status and, in some, the agent's own audit
\* trail
TrackedSyncPayloads ==
    { ("applicationId" :> q[1]) @@ q[2] @@ ("status" :> "approved") @@ x :
        q \in ({"P1"} \X {EmptyDict})
                \cup ({"N1"} \X Opt("applicationtype", {"claim"})),
        x \in Opt("auditTrail", {<<[action |-> "agent_sync"]>>}) }

\* POST /agent/sync among the requests of the admin surface
TrackedSync ==
    \E payload \in TrackedSyncPayloads :
        /\ sync_agent_state(payload, "none")
        /\ wfReq' = [NoWfReq EXCEPT !.op = "sync",
                                    !.application_id = payload["applicationId"]]
        /\ wfEnv' = NoWfEnv
        /\ wfTrace' = <<"primary_write">>
        /\ wfResp' = WfOk(syncResp'.action, NoBody)
        /\ UNCHANGED <<mongoClaims, hashSeed>>

-----------------------------------------------------------------------------
(* POST /agent/sync, two requests at the same time.  A request is suspended
   at its database round trips: another request may run between the lookup
   (crud.get_claim_application / crud.get_application_process) and the write
   that follows it (crud.update_by_id / crud.create_entry).  Neither the
   handler nor the tables hold a lock or a unique constraint on
   applicationId. *)

RaceCalls == {1, 2}

\* a request not yet received; "after" is the set of requests that had
\* written when this one looked up its row
NoCall == [pc |-> "idle", payload |-> EmptyDict, idx |-> 0, after |-> {}]

\* the bodies of the two requests: the same fresh applicationId on either
\* track, with a status and with or without the agent payload
RacePayloads ==
    { ("applicationId" :> "A1") @@ t @@ s @@ x :
        t \in Opt("applicationtype", {"claim"}),
        s \in {"status" :> v : v \in {"approved", "rejected"}},
        x \in Opt("agentData", {"d1"}) }

OnClaimTrack(payload) == IsClaimType(Get(payload, "applicationtype", "policy"))

\* the request is received and its lookup returns
SyncLookup(k) ==
    /\ inflight[k].pc = "idle"
    /\ \E payload \in RacePayloads :
          LET app_id == payload["applicationId"]
              idx == IF OnClaimTrack(payload)
                     THEN RowIndex(claimApplication, app_id)
                     ELSE RowIndex(applicationProcess, app_id)
          IN  inflight' = [inflight EXCEPT ![k] =
                              [pc |-> "looked", payload |-> payload,
                               idx |-> idx,
                               after |-> {j \in RaceCalls :
                                             inflight[j].pc = "done"}]]
    /\ UNCHANGED <<syncVars, uploadVars, utilVars, wfVars, nCalls>>

\* (mutation) lookup and write are one atomic upsert
RowSeenAtWrite(call, table) == RowIndex(table, call.payload["applicationId"])

\* db_claim / db_process: the row the handler holds when it reaches its write
\* is the one its lookup returned
RowSeen(call, table) == call.idx

\* the request resumes after its lookup: it writes and answers
SyncWrite(k) ==
    /\ inflight[k].pc = "looked"
    /\ LET payload == inflight[k].payload
           app_id == payload["applicationId"]
       IN  /\ syncReq' = payload
           /\ syncFault' = "none"
           /\ IF OnClaimTrack(payload)
              THEN SyncClaimWrite(payload, app_id, "none",
                                  RowSeen(inflight[k], claimApplication))
              ELSE SyncPolicyWrite(payload, app_id, "none",
                                   RowSeen(inflight[k], applicationProcess))
    /\ inflight' = [inflight EXCEPT ![k].pc = "done"]
    /\ UNCHANGED <<today, uploadVars, utilVars, wfVars, nCalls>>

Lookup == \E k \in RaceCalls : SyncLookup(k)

Write == \E k \in RaceCalls : SyncWrite(k)

RaceIdle == inflight = [k \in RaceCalls |-> NoCall]

-----------------------------------------------------------------------------
(* Specifications: the sync reconciler, the upload orchestrator, the
   folder-path helpers, and the admin surface *)

Init == SyncInit /\ UploadIdle /\ UtilIdle /\ WfIdle /\ RaceIdle

Next == Sync \/ Tick

Spec == Init /\ [][Next]_vars

UploadSpecInit == SyncIdle /\ UploadInit /\ UtilIdle /\ WfIdle /\ RaceIdle

UploadNext == Upload

UploadSpec == UploadSpecInit /\ [][UploadNext]_vars

UtilSpecInit ==
    SyncIdle /\ UploadIdle /\ nCalls = 0 /\ UtilInit /\ WfIdle /\ RaceIdle

UtilNext ==
    \/ (Derive /\ UNCHANGED <<syncVars, uploadVars, wfVars, nCalls,
                                      inflight>>)
    \/ (ExtractFolder /\ UNCHANGED <<syncVars, uploadVars, wfVars, nCalls,
                                      inflight>>)
    \/ (HasCategoryFolder /\ UNCHANGED <<syncVars, uploadVars, wfVars, nCalls,
                                      inflight>>)
    \/ (Normalize /\ UNCHANGED <<syncVars, uploadVars, wfVars, nCalls,
                                      inflight>>)
    \/ (NormalizeAgain /\ UNCHANGED <<syncVars, uploadVars, wfVars, nCalls,
                                      inflight>>)
    \/ (GetCategoryId /\ UNCHANGED <<syncVars, uploadVars, wfVars, nCalls,
                                      inflight>>)
    \/ (GetDocumentName /\ UNCHANGED <<syncVars, uploadVars, wfVars, nCalls,
                                      inflight>>)

UtilSpec == UtilSpecInit /\ [][UtilNext]_vars

WorkflowSpecInit == WfInit /\ UploadIdle /\ UtilIdle /\ RaceIdle

WorkflowNext == Review \/ Complete \/ Rollback \/ GetApplication \/ Restart

WorkflowSpec == WorkflowSpecInit /\ [][WorkflowNext]_vars

AdminNext ==
    \/ CreateClaimApplication
    \/ DeleteClaimApplication
    \/ TrackedSync
    \/ Review
    \/ Complete
    \/ Rollback
    \/ GetApplication

AdminSpec == WorkflowSpecInit /\ [][AdminNext]_vars

RaceSpecInit ==
    SyncIdle /\ UploadIdle /\ UtilIdle /\ WfIdle /\ nCalls = 0 /\ RaceIdle

RaceNext == Lookup \/ Write

RaceSpec == RaceSpecInit /\ [][RaceNext]_vars

-----------------------------------------------------------------------------
(* Properties of the sync reconciler.  A step that handles a request is one
   that increments nCalls; syncReq', syncFault' and syncResp' are then that
   request's body, fault and response, and the unprimed tables are the
   database the request found. *)

SyncStep == nCalls' = nCalls + 1

ReqId(req) == Get(req, "applicationId", NULL)
ReqIsClaim(req) == Get(req, "applicationtype", "policy") = "claim"
ReqHasId(req) == ReqId(req) # NULL /\ ReqId(req) # ""

\* the indexes of the rows of a table that carry an application id
RowsOf(table, app_id) ==
    {i \in DOMAIN table : table[i].applicationId = app_id}

\* table "after" is table "before" with exactly one row appended
Appended(before, after) ==
    /\ Len(after) = Len(before) + 1
    /\ \A i \in DOMAIN before : after[i] = before[i]

\* table "after" has the rows of "before", changed at most at the indexes in S
SameExceptAt(before, after, S) ==
    /\ Len(after) = Len(before)
    /\ \A i \in DOMAIN before :
          /\ after[i].id = before[i].id
          /\ after[i].applicationId = before[i].applicationId
          /\ i \notin S => after[i] = before[i]

CreateOrUpdate(before, after, app_id, resp) ==
    IF RowsOf(before, app_id) = {}
    THEN /\ resp.action = "created"
         /\ Appended(before, after)
         /\ Cardinality(RowsOf(after, app_id)) = 1
    ELSE /\ resp.action = "updated"
         /\ SameExceptAt(before, after, RowsOf(before, app_id))
         /\ RowsOf(after, app_id) = RowsOf(before, app_id)

\* C1: in a sequential history, a successful sync for an id with no row in
\* the targeted table creates exactly one row and answers "created"; a
\* successful sync for an id that has a row updates that row in place,
\* answers "updated" and leaves the row count unchanged; a sync with an id
\* succeeds unless its primary database write raises.
C1_CreateThenUpdate ==
    [][SyncStep /\ ReqHasId(syncReq') =>
        /\ syncResp'.status = "success" <=> syncFault' # "primary"
        /\ syncResp'.status = "success" =>
              /\ syncResp'.id = ReqId(syncReq')
              /\ IF ReqIsClaim(syncReq')
                 THEN CreateOrUpdate(claimApplication, claimApplication',
                                     ReqId(syncReq'), syncResp')
                 ELSE CreateOrUpdate(applicationProcess, applicationProcess',
                                     ReqId(syncReq'), syncResp')]_vars

\* a second sync of A1 on the claim track answered "updated", one row
C1_Witness ==
    /\ nCalls = 2
    /\ ReqIsClaim(syncReq)
    /\ syncResp.action = "updated"
    /\ syncResp.id = "A1"
    /\ Cardinality(RowsOf(claimApplication, "A1")) = 1

\* C2: a sync whose payload has no applicationId (missing or empty) is
\* rejected with the 422 InvalidInput error and no other error kind.
C2_MissingIdIs422 ==
    (nCalls > 0 /\ ~ReqHasId(syncReq)) => syncResp.code = 422

\* C2 (the part that holds): such a sync is rejected and writes nothing
C2_MissingIdWritesNothing ==
    [][SyncStep /\ ~ReqHasId(syncReq') =>
        /\ syncResp'.status = "error"
        /\ UNCHANGED <<applicationProcess, claimApplication, claim>>]_vars

\* the row a successful claim-track sync created or updated
ResultingClaimRow(after, app_id) ==
    after[CHOOSE i \in RowsOf(after, app_id) : TRUE]

\* C3: after a successful claim-track sync whose master update does not
\* fail, the master Claim's status is set to the payload's status exactly
\* when the resulting row has a master-Claim reference and the payload
\* contains status; in every other case all master Claim rows are unchanged.
C3_PropagateIffStatusSent ==
    [][(/\ SyncStep
        /\ ReqHasId(syncReq')
        /\ ReqIsClaim(syncReq')
        /\ syncFault' = "none") =>
        LET row == ResultingClaimRow(claimApplication', ReqId(syncReq'))
        IN  IF row.claim_record_id # NULL /\ "status" \in DOMAIN syncReq'
            THEN claim' = [claim EXCEPT ![row.claim_record_id] = syncReq'.status]
            ELSE claim' = claim]_vars

\* C4: routing is decided by applicationtype alone: a "claim" sync touches
\* only ClaimApplication and Claim and leaves ApplicationProcess unchanged;
\* any other or missing type touches only ApplicationProcess; a successful
\* sync leaves the id with a row in the table of its own track.
C4_RoutingFrame ==
    [][SyncStep =>
        /\ ReqIsClaim(syncReq') => applicationProcess' = applicationProcess
        /\ ~ReqIsClaim(syncReq') =>
              claimApplication' = claimApplication /\ claim' = claim
        /\ syncResp'.status = "success" =>
              IF ReqIsClaim(syncReq')
              THEN RowsOf(claimApplication', ReqId(syncReq')) # {}
              ELSE RowsOf(applicationProcess', ReqId(syncReq')) # {}]_vars

\* A1 was synced once on each track: it has a row in both tables
C4_Witness ==
    /\ nCalls = 2
    /\ RowsOf(claimApplication, "A1") # {}
    /\ RowsOf(applicationProcess, "A1") # {}
    /\ \A i \in RowsOf(applicationProcess, "A1") :
          applicationProcess[i].applicationtype \in {NULL, "policy"}

\* the row of an application in the table its request targeted
TargetRow(req, claimTable, processTable) ==
    IF ReqIsClaim(req)
    THEN claimTable[CHOOSE i \in RowsOf(claimTable, ReqId(req)) : TRUE]
    ELSE processTable[CHOOSE i \in RowsOf(processTable, ReqId(req)) : TRUE]

TargetColumns(req) ==
    IF ReqIsClaim(req) THEN ClaimApplicationColumns ELSE ApplicationProcessColumns

\* C5: after a successful sync the targeted row has exactly the table's
\* columns (keys that are no column are dropped, and they do not fail the
\* request), every payload key that is a column other than lastUpdated holds
\* exactly the value sent (agentData included), and lastUpdated is the
\* current date whether or not the caller sent one.
C5_FilterAndStore ==
    [][SyncStep /\ ReqHasId(syncReq') =>
        /\ syncFault' # "primary" => syncResp'.status = "success"
        /\ syncResp'.status = "success" =>
              LET row == TargetRow(syncReq', claimApplication', applicationProcess')
              IN  /\ DOMAIN row = TargetColumns(syncReq')
                  /\ \A k \in (DOMAIN syncReq' \cap TargetColumns(syncReq'))
                                    \ {"lastUpdated"} : row[k] = syncReq'[k]
                  /\ row.lastUpdated = today']_vars

\* a sync carrying an unknown key and a stale lastUpdated succeeded
C5_Witness ==
    /\ nCalls > 0
    /\ syncResp.status = "success"
    /\ "debugInfo" \in DOMAIN syncReq
    /\ "lastUpdated" \in DOMAIN syncReq
    /\ syncReq.lastUpdated # today
    /\ TargetRow(syncReq, claimApplication, applicationProcess).agentData = "d2"
    /\ TargetRow(syncReq, claimApplication, applicationProcess).lastUpdated = today

-----------------------------------------------------------------------------
(* Properties of the upload orchestrator.  The rules of the form are stated
   here on the form itself, in the order the specification lists them. *)

UploadStep == nCalls' = nCalls + 1

RuleOrder == <<"userId", "documentType", "filename", "extension", "size">>

RuleViolated(rule, req) ==
    CASE rule = "userId" -> ~IntParses(req.userId)
      [] rule = "documentType" ->
            \A t \in ALLOWED_DOCUMENT_TYPES : Strip(req.documentType) # <<t>>
      [] rule = "filename" -> \A i \in DOMAIN req.filename : req.filename[i] = " "
      [] rule = "extension" ->
            \A e \in ALLOWED_FILE_EXTENSIONS : Lower(SplitExt(req.filename)) # e
      [] rule = "size" -> req.size = 0 \/ req.size > MAX_FILE_SIZE

ViolatedRules(req) == {i \in DOMAIN RuleOrder : RuleViolated(RuleOrder[i], req)}

\* the earliest violated rule of a form that violates one
FirstViolated(req) ==
    RuleOrder[CHOOSE i \in ViolatedRules(req) : \A j \in ViolatedRules(req) : i <= j]

RuleDetails(rule) ==
    CASE rule = "userId" -> {"userId must be a valid integer", "userId is required"}
      [] rule = "documentType" ->
            {"documentType is required and cannot be empty", "Invalid documentType"}
      [] rule = "filename" -> {"File name is required"}
      [] rule = "extension" -> {"Invalid file type"}
      [] rule = "size" -> {"File is empty", "File size exceeds maximum allowed size"}

\* C6: an upload that fails any validation step ends with an error and with
\* no object-store put, no local file and no DocumentRecord: the document
\* table, the store and the local directory are as they were.
C6_RejectedUploadWritesNothing ==
    [][UploadStep /\ ViolatedRules(upReq') # {} =>
        /\ ~upResp'.success
        /\ UNCHANGED <<documents, blobs, localFiles, uploadsDir>>]_vars

\* a rejected upload that found a document and a blob stored before it
C6_Witness ==
    /\ nCalls = 2
    /\ ViolatedRules(upReq) # {}
    /\ ~upResp.success
    /\ Len(documents) = 1
    /\ Len(blobs) = 1

\* the error kinds of the specification's taxonomy, by HTTP status
ErrorKind(code) ==
    CASE code \in {400, 422} -> "InvalidInput"
      [] code = 413 -> "PayloadTooLarge"
      [] code = 415 -> "UnsupportedMediaType"
      [] OTHER -> "Other"

RejectedForExtension(req) ==
    ViolatedRules(req) # {} /\ FirstViolated(req) = "extension"
RejectedForEmptyFile(req) ==
    ViolatedRules(req) # {} /\ FirstViolated(req) = "size" /\ req.size = 0
RejectedForOversize(req) ==
    ViolatedRules(req) # {} /\ FirstViolated(req) = "size" /\ req.size > MAX_FILE_SIZE

\* C7 as claimed: a 0-byte file is rejected as InvalidInput, a file larger
\* than 10 MiB as PayloadTooLarge and a file with a disallowed extension as
\* UnsupportedMediaType: three distinct error kinds.
C7_ThreeDistinctKinds ==
    nCalls > 0 =>
        /\ RejectedForEmptyFile(upReq) => ErrorKind(upResp.code) = "InvalidInput"
        /\ RejectedForOversize(upReq) => ErrorKind(upResp.code) = "PayloadTooLarge"
        /\ RejectedForExtension(upReq) =>
              ErrorKind(upResp.code) = "UnsupportedMediaType"

\* C7 as amended: the three file rejections are all answered with HTTP 400,
\* the InvalidInput kind; only the detail message tells them apart.
C7_SameKindDistinctDetail ==
    nCalls > 0 =>
        /\ RejectedForEmptyFile(upReq) =>
              upResp.code = 400 /\ upResp.detail = "File is empty"
        /\ RejectedForOversize(upReq) =>
              /\ upResp.code = 400
              /\ upResp.detail = "File size exceeds maximum allowed size"
        /\ RejectedForExtension(upReq) =>
              upResp.code = 400 /\ upResp.detail = "Invalid file type"

\* an oversized file was answered 400
C7_Witness ==
    /\ nCalls > 0
    /\ RejectedForOversize(upReq)
    /\ upResp.code = 400

\* C8: validation runs in the order userId, documentType, filename,
\* extension, size: the error returned belongs to the earliest violated rule
\* and no later rule is evaluated; a form that violates none goes through
\* all five.
C8_EarliestRuleWins ==
    nCalls > 0 =>
        IF ViolatedRules(upReq) = {}
        THEN upChecked = RuleOrder /\ (~upResp.success => upResp.code >= 500)
        ELSE /\ upChecked[Len(upChecked)] = FirstViolated(upReq)
             /\ \A i \in DOMAIN upChecked : upChecked[i] = RuleOrder[i]
             /\ upResp.code = 400
             /\ upResp.detail \in RuleDetails(FirstViolated(upReq))

\* a form that violates documentType, filename, extension and size at once
\* was answered with the documentType error
C8_Witness ==
    /\ nCalls > 0
    /\ Cardinality(ViolatedRules(upReq)) = 4
    /\ upResp.detail = "Invalid documentType"
    /\ upChecked = <<"userId", "documentType">>

\* C9 as claimed: a userId that is not a positive integer (non-numeric, zero
\* or negative) is rejected with InvalidInput before any other step, and no
\* DocumentRecord has a userId that is not greater than zero.
C9_OnlyPositiveUserId ==
    /\ \A i \in DOMAIN documents : documents[i].userId > 0
    /\ nCalls > 0 =>
          (~(IntParses(upReq.userId) /\ IntValue(upReq.userId) > 0) =>
              /\ upResp.code = 400
              /\ upChecked = <<"userId">>)

\* C9 as amended: a userId is rejected (400, before any other step) exactly
\* when it is empty or does not parse as an integer; zero and negative
\* integers pass, and the DocumentRecord of a successful upload carries the
\* integer value of the form field, whatever its sign.
C9_AnyIntegerUserId ==
    nCalls > 0 =>
        /\ (upResp.code = 400 /\ upChecked = <<"userId">>)
              <=> ~IntParses(upReq.userId)
        /\ upResp.success =>
              documents[upResp.documentId].userId = IntValue(upReq.userId)

\* an upload with userId "-5" succeeded and its record has userId -5
C9_Witness ==
    /\ upResp.success
    /\ upReq.userId = <<"-", "5">>
    /\ documents[upResp.documentId].userId = 0 - 5

\* C10: when the store is configured and the put fails, the request fails
\* with an error, nothing is written locally and no DocumentRecord is
\* created; a DocumentRecord is created only by an upload whose store write
\* succeeded, and it points at the object that write stored.
C10_NoFallbackNoRecord ==
    [][UploadStep =>
        /\ (azureConfigured /\ upEnv'.put = "failed") =>
              /\ ~upResp'.success
              /\ upResp'.code \in {500, 504}
              /\ UNCHANGED <<documents, blobs, localFiles, uploadsDir>>
        /\ documents' # documents =>
              /\ upEnv'.put = "ok"
              /\ Len(blobs') = Len(blobs) + 1
              /\ Len(documents') = Len(documents) + 1
              /\ documents'[Len(documents')].documentUrl.name
                    = blobs'[Len(blobs')].name
              /\ documents'[Len(documents')].documentUrl.folder
                    = blobs'[Len(blobs')].folder]_vars

\* a put that timed out on a configured store, after an earlier upload that
\* was stored and recorded
C10_Witness ==
    /\ azureConfigured
    /\ upEnv.put = "failed"
    /\ upResp.code = 504
    /\ Len(documents) = 1
    /\ Len(blobs) = 1


\* C11: when the object store is not configured, an upload that passes
\* validation succeeds: the file is written under ./uploads, one
\* DocumentRecord is created and the success response is returned.
C11_LocalFallbackSucceeds ==
    (/\ nCalls > 0
     /\ ~azureConfigured
     /\ ValidateUpload(upReq).error = UploadPassed) =>
        /\ upResp.success
        /\ Len(localFiles) >= 1
        /\ Len(documents) >= 1

\* C11 (what the handler does instead): without a configured store every
\* validated upload is answered 500, writes no file and records nothing
C11_LocalFallbackAlwaysFails ==
    (/\ nCalls > 0
     /\ ~azureConfigured
     /\ ValidateUpload(upReq).error = UploadPassed) =>
        /\ upResp = UploadInternalError(FALSE)
        /\ localFiles = <<>>
        /\ documents = <<>>

-----------------------------------------------------------------------------
(* Properties of the folder-path helpers and the category registry *)

PathDerived == utKind = "path" /\ utStage # "input"

\* the folder the four cases name, for a claim id that is present (whatever
\* its value) or absent, and a category that is given or not
ClaimFolder(u, claimId, category) ==
    LET head == IF claimId # <<>>
                THEN <<"claims", "/">> \o IntStr(claimId[1])
                ELSE <<"claims", "/", "pending", "/">> \o IntStr(u)
    IN  IF CategoryTruthy(category)
        THEN head \o <<"/">> \o normalize_category_for_folder(category[1])
        ELSE head

\* the results of the four cases for one user, claim id and category
FourClaimFolders(u, c, category) ==
    { utils_derive_folder_path(u, "claim_document", <<c>>, <<>>),
      utils_derive_folder_path(u, "claim_document", <<c>>, category),
      utils_derive_folder_path(u, "claim_document", <<>>, <<>>),
      utils_derive_folder_path(u, "claim_document", <<>>, category) }

\* C15: for a claim document derive returns claims/{c} or
\* claims/{c}/{normalize(category)} when a claim id c is given, zero
\* included, and claims/pending/{u} or claims/pending/{u}/{normalize(category)}
\* when none is given; the four results are pairwise distinct.
C15_DeriveClaimFolders ==
    (PathDerived /\ utIn.documentType = "claim_document") =>
        /\ utOut.key = ClaimFolder(utIn.userId, utIn.claimId, utIn.category)
        /\ (utIn.claimId # <<>> /\ CategoryTruthy(utIn.category)) =>
              Cardinality(FourClaimFolders(utIn.userId, utIn.claimId[1],
                                           utIn.category)) = 4

\* C15 (the part that holds): the same, for claim ids other than zero
C15_DeriveClaimFoldersNonZero ==
    (/\ PathDerived
     /\ utIn.documentType = "claim_document"
     /\ utIn.claimId # <<0>>) =>
        /\ utOut.key = ClaimFolder(utIn.userId, utIn.claimId, utIn.category)
        /\ (utIn.claimId # <<>> /\ CategoryTruthy(utIn.category)) =>
              Cardinality(FourClaimFolders(utIn.userId, utIn.claimId[1],
                                           utIn.category)) = 4

ShowsCategory(folder) ==
    /\ folder # <<>>
    /\ LET parts == Split(folder[1], <<"/">>)
       IN  /\ parts[1] = <<"claims">>
           /\ IF Len(parts) >= 2 /\ parts[2] = <<"pending">>
              THEN Len(parts) >= 4
              ELSE Len(parts) >= 3

FolderSafe(name) ==
    /\ \A i \in DOMAIN name : name[i] \in {"c", "d", "7", "-"}
    /\ name # <<>> => name[1] # "-" /\ name[Len(name)] # "-"
    /\ \A i \in 1..(Len(name) - 1) : ~(name[i] = "-" /\ name[i + 1] = "-")

\* C18: category normalisation is total and idempotent, its result is
\* folder-safe, and the three copies of the function agree on every input.
C18_NormalizeIdempotent ==
    (utKind = "normalize" /\ utStage = "done") =>
        /\ utOut.twice = utOut.once
        /\ utOut.once[2] = utOut.once[1]
        /\ utOut.once[3] = utOut.once[1]
        /\ FolderSafe(utOut.once[1])

\* a name with a run of separators between two letters was normalised twice
C18_Witness ==
    /\ utKind = "normalize" /\ utStage = "done"
    /\ utIn.text = <<"D", " ", "_", "c">>
    /\ utOut.once[1] = <<"d", "-", "c">>
    /\ utOut.twice[3] = <<"d", "-", "c">>

\* C19: within a claim type the category ids are unique, so the reverse
\* lookup is an inverse: the display name of the category id of a registered
\* name is that name.
C19_RegistryRoundTrip ==
    (utKind = "registry" /\ utStage = "done") =>
        LET pairs == CATEGORY_MAPPING[utIn.claim_type]
        IN  /\ \A i, j \in DOMAIN pairs : pairs[i][2] = pairs[j][2] => i = j
            /\ utOut.display = <<utIn.document_name>>

\* C19 (the lookup on its own): the reverse lookup returns a display name
\* registered for the id, not always the one the id was derived from
C19_RegistryLookupSound ==
    (utKind = "registry" /\ utStage = "done") =>
        /\ utOut.display # <<>>
        /\ get_category_id(utIn.claim_type, utOut.display[1])
              = utOut.category_id

-----------------------------------------------------------------------------
(* Properties of the admin surface.  A step that handles a request increments
   nCalls; wfReq', wfEnv', wfTrace' and wfResp' are then that request, what
   its collaborators did, its effects in order and its response. *)

WfStep(op) == nCalls' = nCalls + 1 /\ wfReq'.op = op

\* the rows of a table that carry an application id
RowOf(table, application_id) ==
    table[CHOOSE i \in DOMAIN table : table[i]["applicationId"] = application_id]

HasRow(table, application_id) ==
    \E i \in DOMAIN table : table[i]["applicationId"] = application_id

\* the step history a request on a row works on, and the step it targets:
\* the first one whose id or name is the one the request names
HistoryOf(row) ==
    IF row["stepHistory"] # <<>> THEN row["stepHistory"]
    ELSE Get(row["agentData"], "stepHistory", <<>>)

Targets(history, req) ==
    {i \in DOMAIN history :
        /\ history[i]["id"] = req.step_id \/ history[i]["name"] = req.step_name
        /\ \A j \in 1..(i - 1) :
              history[j]["id"] # req.step_id /\ history[j]["name"] # req.step_name}

\* C12: a rollback that targets a step whose completed_by marker is not
\* "human" is rejected with 400 and changes nothing: the application row
\* (stepHistory, agentData, auditTrail, currentStep, lastUpdated) and every
\* other table are the same after the request as before it.
C12_RefusedRollbackChangesNothing ==
    [][(/\ WfStep("rollback")
        /\ HasRow(applicationProcess, wfReq'.application_id)
        /\ LET history == HistoryOf(RowOf(applicationProcess,
                                          wfReq'.application_id))
           IN  \E i \in Targets(history, wfReq') :
                  ~(/\ "completed_by" \in DOMAIN history[i]
                    /\ history[i]["completed_by"] = "human")) =>
        /\ wfResp'.code = 400
        /\ applicationProcess' = applicationProcess
        /\ claimApplication' = claimApplication
        /\ claim' = claim]_vars

\* the rollback of the step the agent completed was answered 400 and the row
\* still carries its old lastUpdated and an empty audit trail
C12_Witness ==
    /\ nCalls = 1
    /\ wfReq.op = "rollback" /\ wfReq.step_name = "ingest"
    /\ wfResp.code = 400
    /\ applicationProcess[1]["lastUpdated"] = StaleDay
    /\ applicationProcess[1]["auditTrail"] = <<>>

\* C13: when the master Claim update raises, the review decision still
\* returns success and the ClaimApplication row keeps the new status.
C13_MasterFailureNeverFailsRequest ==
    (/\ wfReq.op = "review"
     /\ wfEnv.master = "raises"
     /\ HasRow(claimApplication, wfReq.application_id)
     /\ Truthy(RowOf(claimApplication, wfReq.application_id)["claim_record_id"])) =>
        /\ wfResp.code = 200
        /\ RowOf(claimApplication, wfReq.application_id)["status"]
              = ReviewStatus(wfReq.action)

\* C13 (the part that holds for the review decision): the primary write is
\* kept when the master Claim update raises
C13_ReviewKeepsPrimaryWrite ==
    (/\ wfReq.op = "review"
     /\ wfEnv.master = "raises"
     /\ HasRow(claimApplication, wfReq.application_id)
     /\ Truthy(RowOf(claimApplication, wfReq.application_id)["claim_record_id"])) =>
        /\ wfResp.code = 500
        /\ RowOf(claimApplication, wfReq.application_id)["status"]
              = ReviewStatus(wfReq.action)

\* C13 (the part that holds for sync): a sync whose master Claim update
\* raises succeeds like the same sync without the fault
C13_SyncSwallowsMasterFailure ==
    [][(SyncStep /\ ReqHasId(syncReq') /\ syncFault' = "master") =>
        /\ syncResp'.status = "success"
        /\ ReqIsClaim(syncReq') =>
              /\ RowsOf(claimApplication', ReqId(syncReq')) # {}
              /\ \A k \in DOMAIN syncReq' \cap (ClaimApplicationColumns
                                                   \ {"lastUpdated"}) :
                    ResultingClaimRow(claimApplication', ReqId(syncReq'))[k]
                        = syncReq'[k]
              /\ claim' = claim]_vars

Notified == \E i \in DOMAIN wfTrace :
                wfTrace[i] \in {"notify_delivered", "notify_failed"}

\* the row a review decision or a manual completion wrote carries the update
PrimaryWriteKept ==
    IF wfReq.op = "review"
    THEN LET row == IF HasRow(applicationProcess, wfReq.application_id)
                    THEN RowOf(applicationProcess, wfReq.application_id)
                    ELSE RowOf(claimApplication, wfReq.application_id)
         IN  /\ row["status"] = ReviewStatus(wfReq.action)
             /\ row["reviewReason"] = wfReq.reason
             /\ row["lastUpdated"] = today
    ELSE LET row == RowOf(applicationProcess, wfReq.application_id)
             trail == row["auditTrail"]
         IN  /\ row["lastUpdated"] = today
             /\ trail # <<>>
             /\ trail[Len(trail)].action = "manual_step_completion"
             /\ trail[Len(trail)].step_name = wfReq.step_name
             /\ wfResp.body = row

\* C14: the agent notification of a review decision and of a manual step
\* completion is sent only after the primary write, and whether it is
\* delivered or fails the request returns success with its update kept.
C14_NotifyAfterWriteNeverFails ==
    (wfReq.op \in {"review", "complete"}) =>
        /\ Notified =>
              /\ wfTrace[1] = "primary_write"
              /\ wfTrace[Len(wfTrace)] =
                    (IF wfEnv.notify = "ok" THEN "notify_delivered"
                     ELSE "notify_failed")
              /\ wfResp.code = 200
              /\ PrimaryWriteKept
        /\ (wfResp.code = 200) => Notified

\* a manual completion whose notification failed was answered 200
C14_Witness ==
    /\ wfReq.op = "complete"
    /\ wfTrace = <<"primary_write", "notify_failed">>
    /\ wfResp.code = 200
    /\ PrimaryWriteKept

\* C20: the projection get_application synthesizes from a document-store
\* record has currentStep final_decision exactly when the record's status is
\* approved or rejected, ingest for every other or missing status, and
\* applicationtype claim.
C20_FallbackStepFromStatus ==
    (wfReq.op = "get" /\ wfResp.code = 200 /\ wfResp.detail = "fallback") =>
        LET doc == mongoClaims[wfReq.application_id]
            terminal == /\ "status" \in DOMAIN doc
                        /\ doc["status"] \in {"approved", "rejected"}
        IN  /\ wfResp.body["currentStep"] =
                  (IF terminal THEN "final_decision" ELSE "ingest")
            /\ wfResp.body["applicationtype"] = "claim"
            /\ wfResp.body["applicationId"] = wfReq.application_id

\* the rejected claim M2 was read through the fallback
C20_Witness ==
    /\ wfReq.op = "get" /\ wfReq.application_id = "M2"
    /\ wfResp.code = 200 /\ wfResp.detail = "fallback"
    /\ wfResp.body["status"] = "rejected"
    /\ wfResp.body["currentStep"] = "final_decision"

\* a record without status was read through the fallback: the initial step
C20_WitnessMissingStatus ==
    /\ wfReq.op = "get" /\ wfReq.application_id = "M4"
    /\ wfResp.detail = "fallback"
    /\ wfResp.body["status"] = "new_claim"
    /\ wfResp.body["currentStep"] = "ingest"

\* C21: the surrogate id of read-repair depends on the external id alone: two
\* read-repair calls for the same external id, in the same or in different
\* server processes, return the same integer, and it lies in 0..999999.
C21_SurrogateIdStable ==
    [][(/\ WfStep("get")
        /\ wfResp'.detail = "fallback"
        /\ wfReq.op = "get" /\ wfResp.detail = "fallback"
        /\ wfReq'.application_id = wfReq.application_id) =>
            /\ wfResp'.body["id"] = wfResp.body["id"]
            /\ wfResp'.body["id"] \in 0..999999]_vars

\* C21 (the part that holds): the surrogate id lies in 0..999999
C21_SurrogateIdInRange ==
    (wfReq.op = "get" /\ wfResp.detail = "fallback") =>
        wfResp.body["id"] \in 0..999999

\* C21 (the part that holds): calls in one server process agree
C21_SurrogateIdStableInProcess ==
    [][(/\ WfStep("get")
        /\ wfResp'.detail = "fallback"
        /\ wfReq.op = "get" /\ wfResp.detail = "fallback"
        /\ wfReq'.application_id = wfReq.application_id
        /\ wfResp.body["id"] = FakeId(hashSeed, wfReq.application_id)) =>
            wfResp'.body["id"] = wfResp.body["id"]]_vars

\* the policy-track row of the application a request names, before and
\* after the request
RowBefore == RowOf(applicationProcess, wfReq'.application_id)
RowAfter == RowOf(applicationProcess', wfReq'.application_id)

IsHumanCompleted(step) ==
    /\ "status" \in DOMAIN step /\ step["status"] = "completed"
    /\ "completed_by" \in DOMAIN step /\ step["completed_by"] = "human"

\* C23: manual completion on an existing policy-track application: when the
\* step history holds a step with the id or the name of the request, the
\* first such step becomes completed by human, the length of the history is
\* unchanged and no other step is modified; when no step matches, exactly
\* one new step completed by human is appended and the existing steps are
\* unchanged.
C23_CompleteMarksOrAppends ==
    [][(WfStep("complete")
        /\ HasRow(applicationProcess, wfReq'.application_id)) =>
        LET before == HistoryOf(RowBefore)
            after == RowAfter["stepHistory"]
            hit == Targets(before, wfReq')
        IN  IF hit # {}
            THEN /\ Len(after) = Len(before)
                 /\ \A i \in DOMAIN before :
                       IF i \in hit THEN IsHumanCompleted(after[i])
                       ELSE after[i] = before[i]
            ELSE /\ Len(after) = Len(before) + 1
                 /\ IsHumanCompleted(after[Len(after)])
                 /\ after[Len(after)]["id"] = wfReq'.step_id
                 /\ after[Len(after)]["name"] = wfReq'.step_name
                 /\ \A i \in DOMAIN before : after[i] = before[i]]_vars

\* a completion that names step 2 by id and step 1 by name marked step 1,
\* the first match, and left the pending steps alone
C23_Witness ==
    /\ nCalls = 1
    /\ wfReq.op = "complete" /\ wfResp.code = 200
    /\ wfReq.step_id = 2 /\ wfReq.step_name = "ingest"
    /\ LET after == applicationProcess[1]["stepHistory"]
       IN  /\ Len(after) = 3
           /\ IsHumanCompleted(after[1])
           /\ after[2] = PendingSteps[2]

\* a completion of a step the history does not hold appended it
C23_WitnessAppended ==
    /\ nCalls = 1
    /\ wfReq.op = "complete" /\ wfResp.code = 200
    /\ wfReq.step_name = "payout"
    /\ LET after == applicationProcess[1]["stepHistory"]
       IN  /\ Len(after) = 4
           /\ IsHumanCompleted(after[4])

OpenSteps(history) ==
    {i \in DOMAIN history :
        /\ "status" \in DOMAIN history[i]
        /\ history[i]["status"] \in {"pending", "in_progress", "in-progress"}}

\* C24: manual completion changes currentStep only if the completed step
\* was the current one (currentStep is step_name or the string form of
\* step_id); then currentStep becomes the name of the first step, in history
\* order, that is pending, in_progress or in-progress, and stays when no
\* such step remains; otherwise currentStep is unchanged.
C24_CurrentStepRecomputed ==
    [][(WfStep("complete")
        /\ HasRow(applicationProcess, wfReq'.application_id)) =>
        LET after == RowAfter["stepHistory"]
            open == OpenSteps(after)
            wasCurrent ==
                \/ RowBefore["currentStep"] = wfReq'.step_name
                \/ \E ch \in Digits :
                      /\ DigitValue(ch) = wfReq'.step_id
                      /\ RowBefore["currentStep"] = ch
        IN  IF wasCurrent /\ open # {}
            THEN \E i \in open :
                    /\ \A j \in open : i <= j
                    /\ RowAfter["currentStep"] = after[i]["name"]
            ELSE RowAfter["currentStep"] = RowBefore["currentStep"]]_vars

\* the current step "review" was completed and the application moved on to
\* "decision", the first step still pending
C24_Witness ==
    /\ nCalls = 1
    /\ wfReq.op = "complete" /\ wfResp.code = 200
    /\ wfReq.step_name = "review"
    /\ applicationProcess[1]["agentData"]["currentStep"] = "review"
    /\ applicationProcess[1]["currentStep"] = "decision"

\* the current step "decision" was completed and no step is left open: the
\* application stays at "decision"
C24_WitnessStays ==
    /\ nCalls = 1
    /\ wfReq.op = "complete" /\ wfResp.code = 200
    /\ wfReq.step_name = "decision"
    /\ OpenSteps(applicationProcess[1]["stepHistory"]) = {}
    /\ applicationProcess[1]["currentStep"] = "decision"

\* the audit trail of an application shows a completion of a pending step
\* followed by the rollback of the same step, and nothing else
CompletedThenRolledBack(row) ==
    LET trail == row["auditTrail"]
    IN  /\ Len(trail) = 2
        /\ trail[1].action = "manual_step_completion"
        /\ trail[1].previous_status = "pending"
        /\ trail[2].action = "step_rollback"
        /\ trail[2].step_name = trail[1].step_name
        /\ trail[2].step_id = trail[1].step_id

\* the step of a history that carries a name
StepNamed(history, name) ==
    history[CHOOSE i \in DOMAIN history : history[i]["name"] = name]

\* C25: rollback is the inverse of manual completion: for an application
\* whose step S is pending and is the current step, completing S and then
\* rolling S back returns the application to S.status = pending and
\* currentStep = S, whatever other steps the history contains.
C25_RollbackInvertsCompletion ==
    \A i \in DOMAIN applicationProcess :
        LET row == applicationProcess[i]
            S == row["auditTrail"][1].step_name
        IN  (/\ nCalls = 2
             /\ CompletedThenRolledBack(row)
             /\ row["agentData"]["currentStep"] = S) =>
                /\ StepNamed(row["stepHistory"], S)["status"] = "pending"
                /\ row["currentStep"] = S

\* C25 (the part that holds): the status of S is pending again, and
\* currentStep is S again when the completion had not moved it
C25_RollbackRestoresStatus ==
    \A i \in DOMAIN applicationProcess :
        LET row == applicationProcess[i]
            S == row["auditTrail"][1].step_name
        IN  (/\ nCalls = 2
             /\ CompletedThenRolledBack(row)
             /\ row["agentData"]["currentStep"] = S) =>
                /\ StepNamed(row["stepHistory"], S)["status"] = "pending"
                /\ (row["currentStep"] # S) =>
                      \E j \in OpenSteps(row["stepHistory"]) :
                          /\ row["stepHistory"][j]["name"] # S
                          /\ row["stepHistory"][j]["name"] = row["currentStep"]

\* C27 (its invariant): a step whose completed_by is "human" has status
\* completed
C27_HumanMarkMeansCompleted ==
    \A i \in DOMAIN applicationProcess :
        \A j \in DOMAIN applicationProcess[i]["stepHistory"] :
            LET step == applicationProcess[i]["stepHistory"][j]
            IN  ("completed_by" \in DOMAIN step
                 /\ step["completed_by"] = "human") =>
                    step["status"] = "completed"

\* C27: rollback is accepted only for a step that is manually completed now:
\* a rollback of a step that is pending is rejected and
\* appends no audit entry.
C27_PendingStepNotRolledBack ==
    [][(/\ WfStep("rollback")
        /\ HasRow(applicationProcess, wfReq'.application_id)
        /\ LET history == HistoryOf(RowBefore)
           IN  \E i \in Targets(history, wfReq') :
                  history[i]["status"] = "pending") =>
        /\ wfResp'.code = 400
        /\ RowAfter["auditTrail"] = RowBefore["auditTrail"]]_vars

\* C27 (the part that holds): a rollback of a step that does not carry the
\* mark "human" is rejected and appends no audit entry
C27_UnmarkedStepNotRolledBack ==
    [][(/\ WfStep("rollback")
        /\ HasRow(applicationProcess, wfReq'.application_id)
        /\ LET history == HistoryOf(RowBefore)
           IN  \E i \in Targets(history, wfReq') :
                  "completed_by" \notin DOMAIN history[i]) =>
        /\ wfResp'.code = 400
        /\ RowAfter["auditTrail"] = RowBefore["auditTrail"]]_vars

\* C30: the two copies of the step history stay consistent: after every
\* successful manual completion or rollback the stepHistory column and the
\* stepHistory nested in agentData hold the same steps with the same
\* statuses, and every other key of agentData is unchanged.
C30_StepHistoryCopiesAgree ==
    [][((WfStep("complete") \/ WfStep("rollback")) /\ wfResp'.code = 200) =>
        /\ "stepHistory" \in DOMAIN RowAfter["agentData"]
        /\ RowAfter["agentData"]["stepHistory"] = RowAfter["stepHistory"]
        /\ \A k \in DOMAIN RowBefore["agentData"] \ {"stepHistory"} :
              /\ k \in DOMAIN RowAfter["agentData"]
              /\ RowAfter["agentData"][k] = RowBefore["agentData"][k]]_vars

\* C30 (the part that holds): the copies agree when agentData held no copy
\* before the operation, and the other keys of agentData are never changed
C30_OtherAgentDataKept ==
    [][((WfStep("complete") \/ WfStep("rollback")) /\ wfResp'.code = 200) =>
        /\ "stepHistory" \in DOMAIN RowAfter["agentData"]
        /\ ("stepHistory" \notin DOMAIN RowBefore["agentData"]) =>
              RowAfter["agentData"]["stepHistory"] = RowAfter["stepHistory"]
        /\ DOMAIN RowAfter["agentData"] =
              DOMAIN RowBefore["agentData"] \cup {"stepHistory"}
        /\ \A k \in DOMAIN RowBefore["agentData"] \ {"stepHistory"} :
              RowAfter["agentData"][k] = RowBefore["agentData"][k]]_vars

-----------------------------------------------------------------------------
(* Properties of two sync requests handled at the same time *)

BothDone == \A k \in RaceCalls : inflight[k].pc = "done"

\* both requests looked up their row before either had written
Interleaved == \A k \in RaceCalls : inflight[k].after = {}

SameTrack == OnClaimTrack(inflight[1].payload) = OnClaimTrack(inflight[2].payload)

TrackTable(payload) ==
    IF OnClaimTrack(payload) THEN claimApplication ELSE applicationProcess

\* the fields of a body that are stored, lastUpdated aside
StoredKeys(payload) ==
    (DOMAIN payload \cap (IF OnClaimTrack(payload) THEN ClaimApplicationColumns
                          ELSE ApplicationProcessColumns)) \ {"lastUpdated"}

\* the row that a lookup of the application finds carries the fields of the
\* request "later", and those fields of the request "earlier" that the later
\* one did not send
Reflects(earlier, later) ==
    LET row == RowOf(TrackTable(later), later["applicationId"])
    IN  /\ \A f \in StoredKeys(later) : row[f] = later[f]
        /\ \A f \in StoredKeys(earlier) \ StoredKeys(later) :
              row[f] = earlier[f]

C22_WitnessSequential ==
    /\ BothDone /\ ~Interleaved /\ SameTrack
    /\ syncResp.action = "updated"
    /\ Len(applicationProcess) + Len(claimApplication) = 1

-----------------------------------------------------------------------------
(* Properties of the agent surface on applications that intake and sync
   create *)

IsPrefix(u, v) ==
    /\ Len(u) <= Len(v)
    /\ \A i \in DOMAIN u : v[i] = u[i]

\* the rows of a table keep their place: no handler deletes a row
TrailsGrow(before, after) ==
    /\ Len(before) <= Len(after)
    /\ \A i \in DOMAIN before :
          IsPrefix(before[i]["auditTrail"], after[i]["auditTrail"])

\* C26: the audit trail of an application is append-only: across any
\* sequence of sync, review, manual completion and rollback the trail after
\* each operation has the trail before it as a prefix, and each successful
\* completion and rollback appends exactly one entry.
C26_AuditTrailAppendOnly ==
    [][/\ TrailsGrow(applicationProcess, applicationProcess')
       /\ TrailsGrow(claimApplication, claimApplication')
       /\ ((WfStep("complete") \/ WfStep("rollback")) /\ wfResp'.code = 200) =>
             Len(RowAfter["auditTrail"]) = Len(RowBefore["auditTrail"]) + 1]_vars

\* C26 (the part that holds): review, completion and rollback never remove
\* or rewrite an entry, and a successful completion or rollback appends one
C26_AdminOperationsAppend ==
    [][(nCalls' = nCalls + 1
        /\ wfReq'.op \in {"review", "complete", "rollback", "get"}) =>
            /\ TrailsGrow(applicationProcess, applicationProcess')
            /\ TrailsGrow(claimApplication, claimApplication')
            /\ (wfReq'.op \in {"complete", "rollback"}
                /\ wfResp'.code = 200
                /\ applicationProcess' # applicationProcess) =>
                  Len(RowAfter["auditTrail"])
                      = Len(RowBefore["auditTrail"]) + 1]_vars

\* C28: an external application id has a row in at most one of the two
\* tracks: after any sequence of claim-application creations and syncs of
\* either type no applicationId has a row in both ApplicationProcess and
\* ClaimApplication.
C28_OneTrackPerApplication ==
    \A i \in DOMAIN applicationProcess :
        ~HasRow(claimApplication, applicationProcess[i]["applicationId"])

\* C28 (the part that holds): the syncs of one type keep one row per
\* applicationId in the table of that type
C28_OneRowPerTrack ==
    /\ \A i \in DOMAIN applicationProcess :
          Cardinality(RowsOf(applicationProcess,
                             applicationProcess[i]["applicationId"])) = 1
    /\ \A i \in DOMAIN claimApplication :
          Cardinality(RowsOf(claimApplication,
                             claimApplication[i]["applicationId"])) = 1

\* C29: a created claim application is always readable through the agent
\* surface.  The id create_claim_application returns is in the document
\* store, and stays there until it is deleted, whether the tracking row was
\* written or its insert failed; get_application answers NotFound only when
\* the id is absent from ApplicationProcess, from ClaimApplication and from
\* the document store, or the document store is unavailable; and it never
\* writes to either store.
C29_CreatedClaimReadable ==
    [][/\ (WfStep("create") /\ wfResp'.code = 201) =>
             wfResp'.body.id \in DOMAIN mongoClaims'
       /\ \A a \in DOMAIN mongoClaims :
             (a \notin DOMAIN mongoClaims') =>
                 (WfStep("delete") /\ wfReq'.application_id = a)
       /\ WfStep("get") =>
             /\ (wfResp'.code = 404) <=>
                   /\ ~HasRow(applicationProcess, wfReq'.application_id)
                   /\ ~HasRow(claimApplication, wfReq'.application_id)
                   /\ \/ wfReq'.application_id \notin DOMAIN mongoClaims
                      \/ wfEnv'.mongo # "ok"
             /\ wfResp'.code \in {200, 404}
             /\ UNCHANGED <<applicationProcess, claimApplication, claim,
                            mongoClaims>>]_vars

\* the claim N1 was created while the insert of its tracking row failed, and
\* was then read through the agent surface from the document store
C29_Witness ==
    /\ nCalls = 2
    /\ wfReq.op = "get" /\ wfReq.application_id = "N1"
    /\ "N1" \in DOMAIN mongoClaims
    /\ ~HasRow(applicationProcess, "N1")
    /\ wfResp.code = 200 /\ wfResp.detail = "fallback"
    /\ wfResp.body["applicationId"] = "N1"
    /\ wfResp.body["customerId"] \in {"u1", "u2"}

=============================================================================
